---------------------------- MODULE Spec2Model ----------------------------
(***************************************************************************)
(* TaskRush: the task service of src/server.js as a state machine.         *)
(*                                                                         *)
(* Representation                                                          *)
(*   - a JavaScript string is a sequence of one-character strings;         *)
(*   - a JavaScript number is a fixed-point integer counting hundredths    *)
(*     (Num(150) is 1.5), which is exact for the two-decimal values the    *)
(*     handlers compare and for the result of toFixed(2); a number of a    *)
(*     request too large for that (a time in milliseconds) is held as its  *)
(*     thousands and the hundredths of the rest (Big(7, 150) is 7001.5);   *)
(*   - a Date is a pair <<s, ms>>: the whole seconds since                 *)
(*     2025-01-01T00:00:00Z and the milliseconds 0..999 within the second; *)
(*     a nullable Date is << >> (null, or the Invalid Date) or that pair;  *)
(*   - the server clock is read at whole seconds, so the clock and the     *)
(*     createdAt read off it are held as the count of seconds alone;       *)
(*   - a JSON request value is a tagged record, see Undef .. Str.          *)
(* A handler is served one await at a time: each action is the code from  *)
(* one await of a handler to its next, so that other requests are served   *)
(* while a request is suspended.                                           *)
(* The persistence layer (MongoDB through Mongoose) is assumed available:  *)
(* the only exceptions a handler sees are Mongoose's cast, validation,     *)
(* duplicate-key and document-not-found errors and bcrypt's argument       *)
(* error, which the handlers turn into a 500 answer.                       *)
(***************************************************************************)
EXTENDS Integers, Sequences, FiniteSets

-----------------------------------------------------------------------------
(* JSON values of a request body *)

Undef     == [t |-> "undefined", s |-> << >>, k |-> 0, n |-> 0, b |-> FALSE]
Null      == [t |-> "null",      s |-> << >>, k |-> 0, n |-> 0, b |-> FALSE]
Bool(x)   == [t |-> "boolean",   s |-> << >>, k |-> 0, n |-> 0, b |-> x]
Num(x)    == [t |-> "number",    s |-> << >>, k |-> 0, n |-> x, b |-> FALSE]
Str(x)    == [t |-> "string",    s |-> x,     k |-> 0, n |-> 0, b |-> FALSE]

\* the number k * 1000 + x / 100, for k > 0 and 0 <= x < 100000
Big(k, x) == [t |-> "number",    s |-> << >>, k |-> k, n |-> x, b |-> FALSE]

\* JavaScript truthiness: undefined, null, false, 0 and "" are falsy
Truthy(v) ==
  CASE v.t = "undefined" -> FALSE
    [] v.t = "null"      -> FALSE
    [] v.t = "boolean"   -> v.b
    [] v.t = "number"    -> v.n # 0 \/ v.k # 0
    [] OTHER             -> v.s # << >>

-----------------------------------------------------------------------------
(* Strings *)

\* String.prototype.repeat for a one-character string
Rep(c, k) == [i \in 1..k |-> c]

\* String.prototype.trim (the only white space of the model is " "): the
\* part from the first to the last character that is not white space
Trim(s) ==
  IF s = << >> THEN s
  ELSE IF s[1] # " " /\ s[Len(s)] # " " THEN s
  ELSE LET inked == {i \in 1..Len(s) : s[i] # " "}
       IN  IF inked = {} THEN << >>
           ELSE SubSeq(s, CHOOSE i \in inked : \A j \in inked : i <= j,
                          CHOOSE i \in inked : \A j \in inked : i >= j)

\* the letters String.prototype.toLowerCase changes (ASCII)
UpperCase == <<"A", "B", "C", "D", "E", "F", "G", "H", "I", "J", "K", "L", "M",
               "N", "O", "P", "Q", "R", "S", "T", "U", "V", "W", "X", "Y", "Z">>

LowerCase == <<"a", "b", "c", "d", "e", "f", "g", "h", "i", "j", "k", "l", "m",
               "n", "o", "p", "q", "r", "s", "t", "u", "v", "w", "x", "y", "z">>

\* String.prototype.toLowerCase
ToLowerCase(s) ==
  [i \in 1..Len(s) |->
     IF \E k \in 1..26 : UpperCase[k] = s[i]
     THEN LowerCase[CHOOSE k \in 1..26 : UpperCase[k] = s[i]]
     ELSE s[i]]

Digits == <<"0", "1", "2", "3", "4", "5", "6", "7", "8", "9">>

IsDigit(c) == \E i \in 1..10 : Digits[i] = c

DigitVal(c) == (CHOOSE i \in 1..10 : Digits[i] = c) - 1

Pad2(k) == <<Digits[(k \div 10) + 1], Digits[(k % 10) + 1]>>

RECURSIVE NatToStr(_)
NatToStr(k) ==
  IF k < 10 THEN <<Digits[k + 1]>> ELSE NatToStr(k \div 10) \o <<Digits[(k % 10) + 1]>>

\* Number-to-string of a number of k thousands and n hundredths: 1200 is
\* "12", 150 is "1.5", 5 is "0.05", -150 is "-1.5", and 7 thousands with
\* 150 hundredths is "7001.5"
NumToStr(k, n) ==
  LET a    == IF n < 0 THEN 0 - n ELSE n
      ip   == a \div 100
      fp   == a % 100
      sign == IF n < 0 THEN <<"-">> ELSE << >>
      int  == IF k = 0 THEN NatToStr(ip)
              ELSE NatToStr(k) \o <<Digits[(ip \div 100) + 1]>> \o Pad2(ip % 100)
      frac == IF fp = 0 THEN << >>
              ELSE IF fp % 10 = 0 THEN <<".", Digits[(fp \div 10) + 1]>>
              ELSE <<".", Digits[(fp \div 10) + 1], Digits[(fp % 10) + 1]>>
  IN  sign \o int \o frac

\* String(v), which is also Mongoose's cast of a primitive to a String path
JsString(v) ==
  CASE v.t = "undefined" -> <<"u", "n", "d", "e", "f", "i", "n", "e", "d">>
    [] v.t = "null"      -> <<"n", "u", "l", "l">>
    [] v.t = "boolean"   -> IF v.b THEN <<"t", "r", "u", "e">>
                                   ELSE <<"f", "a", "l", "s", "e">>
    [] v.t = "number"    -> NumToStr(v.k, v.n)
    [] OTHER             -> v.s

-----------------------------------------------------------------------------
(* Dates: seconds and milliseconds since 2025-01-01T00:00:00Z *)

\* days from 1970-01-01 to 2025-01-01
EpochDay == 20089

SecPerDay == 86400

SecPerHour == 3600

\* days from 1970-01-01 to the civil date y-m-d (proleptic Gregorian)
DaysFromCivil(y, m, d) ==
  LET yy  == IF m <= 2 THEN y - 1 ELSE y
      era == yy \div 400
      yoe == yy - era * 400
      mp  == (m + 9) % 12
      doy == ((153 * mp + 2) \div 5) + d - 1
      doe == yoe * 365 + (yoe \div 4) - (yoe \div 100) + doy
  IN  era * 146097 + doe - 719468

\* the civil date <<y, m, d>> of a day number counted from 1970-01-01
CivilFromDays(z) ==
  LET zz  == z + 719468
      era == zz \div 146097
      doe == zz - era * 146097
      yoe == (doe - (doe \div 1460) + (doe \div 36524) - (doe \div 146096)) \div 365
      doy == doe - (365 * yoe + (yoe \div 4) - (yoe \div 100))
      mp  == (5 * doy + 2) \div 153
      d   == doy - ((153 * mp + 2) \div 5) + 1
      m   == IF mp < 10 THEN mp + 3 ELSE mp - 9
      y   == yoe + era * 400 + (IF m <= 2 THEN 1 ELSE 0)
  IN  <<y, m, d>>

\* Date.parse of a string, as a nullable Date (<< >> is the Invalid Date).
\* Modelled input domain: a date-only string "YYYY-MM-DD" (parsed as UTC
\* midnight), or a text that is no date at all.  The parser accepts every
\* day from 01 to 31 in every month; a day past the end of the month rolls
\* over into the next one ("2025-02-30" is 2025-03-02).
DateParse(s) ==
  IF /\ Len(s) = 10
     /\ s[5] = "-" /\ s[8] = "-"
     /\ \A i \in {1, 2, 3, 4, 6, 7, 9, 10} : IsDigit(s[i])
  THEN LET y == 1000 * DigitVal(s[1]) + 100 * DigitVal(s[2])
                + 10 * DigitVal(s[3]) + DigitVal(s[4])
           m == 10 * DigitVal(s[6]) + DigitVal(s[7])
           d == 10 * DigitVal(s[9]) + DigitVal(s[10])
       IN  IF m \in 1..12 /\ d \in 1..31
           THEN <<(DaysFromCivil(y, m, 1) + d - 1 - EpochDay) * SecPerDay, 0>>
           ELSE << >>
  ELSE << >>

\* the whole milliseconds of a time value given in hundredths of a
\* millisecond (the part below the thousands, which are whole seconds): the
\* fraction is dropped, towards zero
TimeClip(n) == IF n >= 0 THEN n \div 100 ELSE 0 - ((0 - n) \div 100)

\* new Date(v) of a request value: a string is parsed, a number (and a
\* boolean or null, converted to 1 or 0) is a count of milliseconds since
\* 1970-01-01, undefined is the Invalid Date
NewDate(v) ==
  CASE v.t = "string"    -> DateParse(v.s)
    [] v.t = "number"    -> <<v.k + (TimeClip(v.n) \div 1000) - EpochDay * SecPerDay,
                              TimeClip(v.n) % 1000>>
    [] v.t = "boolean"   -> <<0 - EpochDay * SecPerDay, IF v.b THEN 1 ELSE 0>>
    [] v.t = "undefined" -> << >>
    [] OTHER             -> <<0 - EpochDay * SecPerDay, 0>>

\* Date.prototype.toISOString().slice(0, 10): the UTC calendar day of a Date
IsoDay(t) ==
  LET c == CivilFromDays((t[1] \div SecPerDay) + EpochDay)
  IN  Pad2(c[1] \div 100) \o Pad2(c[1] % 100) \o <<"-">> \o Pad2(c[2]) \o <<"-">> \o Pad2(c[3])

-----------------------------------------------------------------------------
(* Enumerations of TaskSchema *)

P_low      == <<"l", "o", "w">>
P_medium   == <<"m", "e", "d", "i", "u", "m">>
P_high     == <<"h", "i", "g", "h">>
P_critical == <<"c", "r", "i", "t", "i", "c", "a", "l">>

Priorities == {P_low, P_medium, P_high, P_critical}

S_active  == <<"a", "c", "t", "i", "v", "e">>
S_backlog == <<"b", "a", "c", "k", "l", "o", "g">>
S_done    == <<"d", "o", "n", "e">>

Statuses == {S_active, S_backlog, S_done}

\* maxlength of TaskSchema.title
TitleMaxLen == 200

\* min and max of TaskSchema.estimateHrs, in hundredths of an hour
EstimateMin == 10

EstimateMax == 10000

-----------------------------------------------------------------------------
(* Urgency *)

\* a table in which critical weighs 4
priorityWeightLinear(p) ==
  CASE p = P_low    -> 1
    [] p = P_medium -> 2
    [] p = P_high   -> 3
    [] OTHER        -> 4

\* const priorityWeight = { low: 1, medium: 2, high: 3, critical: 5 }
priorityWeight(p) ==
  CASE p = P_low    -> 1
    [] p = P_medium -> 2
    [] p = P_high   -> 3
    [] OTHER        -> 5

\* The <<weight, seconds until the deadline>> pairs at which the quotient
\* weight / (hours / 24) lies, in exact arithmetic, half-way between two
\* hundredths while the IEEE-754 double the code computes lies just below:
\* toFixed(2) rounds these down.  Every other half-way case rounds up.
\* All of them are whole seconds.
TiesBelow ==
  { <<1, 128000>>, <<1, 384000>>, <<1, 1152000>>, <<1, 1920000>>,
    <<1, 5760000>>, <<2, 256000>>, <<2, 768000>>, <<2, 2304000>>,
    <<2, 3840000>>, <<2, 11520000>>, <<3, 9216>>, <<3, 128000>>,
    <<3, 384000>>, <<3, 640000>>, <<3, 1152000>>, <<3, 1920000>>,
    <<3, 3456000>>, <<3, 5760000>>, <<3, 17280000>>, <<5, 128000>>,
    <<5, 1920000>>, <<5, 5760000>> }

\* A span of time is a pair <<s, ms>> like a Date, standing for s + ms/1000
\* seconds.  Math.max(lo, u) for a span u and a number lo of seconds
AtLeast(u, lo) == IF u[1] >= lo THEN u ELSE <<lo, 0>>

\* k * u <= a, for a span u and numbers k and a of seconds
TimesAtMost(k, u, a) == k * u[1] + ((k * u[2] + 999) \div 1000) <= a

\* the whole part of a / u, for a number a >= 0 of seconds and a span u > 0
Quotient(a, u) ==
  CHOOSE k \in (a \div (u[1] + 1))..(a \div u[1]) :
            TimesAtMost(k, u, a) /\ ~TimesAtMost(k + 1, u, a)

\* the hours clamped to a minimum of 24 instead of 1
UrgencyClampedAtDay(w, u) ==
  LET den == AtLeast(u, SecPerDay)
      num == w * 24 * SecPerHour * 100
      q   == Quotient(num, den)
  IN  IF TimesAtMost(2 * q + 1, den, 2 * num) THEN q + 1 ELSE q

\* the weight multiplied by the days until the deadline instead of divided
UrgencyTimesDays(w, u) ==
  LET den == AtLeast(u, SecPerHour)
  IN  (w * 100 * (den[1] \div SecPerHour)) \div 24

\* the quotient cut to two decimals instead of rounded
UrgencyTruncated(w, u) ==
  LET den == AtLeast(u, SecPerHour)
      num == w * 24 * SecPerHour * 100
  IN  Quotient(num, den)

\* Number((w / (hoursUntilDeadline / 24)).toFixed(2)) in hundredths, where
\* hoursUntilDeadline = Math.max(1, u / 3600) for the span u from now to
\* the deadline: the quotient rounded to the nearest hundredth
UrgencyWithDeadline(w, u) ==
  LET den  == AtLeast(u, SecPerHour)
      num  == w * 24 * SecPerHour * 100
      q    == Quotient(num, den)
      half == IF TimesAtMost(2 * q + 1, den, 2 * num) THEN q + 1 ELSE q
  IN  IF den[2] = 0 /\ <<w, den[1]>> \in TiesBelow THEN half - 1 ELSE half

\* computeDerived at clock time now: the task with its urgencyScore set
computeDerived(task, now) ==
  IF task.deadline # << >>
  THEN [task EXCEPT !.urgencyScore =
          UrgencyWithDeadline(priorityWeight(task.priority),
                              <<task.deadline[1] - now, task.deadline[2]>>)]
  ELSE [task EXCEPT !.urgencyScore = 100 * priorityWeight(task.priority)]

-----------------------------------------------------------------------------
(* State *)

VARIABLES
  users,    \* the User collection: a sequence of accounts, _id = index
  session,  \* session id -> req.session.userId (NoUser when not logged in)
  tasks,    \* the Task collection: _id -> document
  nextId,   \* the next fresh Task _id
  now,      \* the server clock, new Date()
  last,     \* the answer the step just taken sent (NoAnswer if it sent none)
  inflight,     \* the requests suspended at an await of their handler
  stateTasks,   \* the client's state.tasks
  lastSnapshot, \* the client's state.lastSnapshot
  meta,         \* the client's state.meta (localStorage "taskrush:meta")
  editId,       \* the value of the form's hidden "edit-id" (BadId for "")
  rows,         \* the ids of the rows renderTasks last put on the page
  initI,        \* the loop counter i of init()
  calls         \* the client's api() calls and timers that await their result

vars == <<users, session, tasks, nextId, now, last, inflight,
          stateTasks, lastSnapshot, meta, editId, rows, initI, calls>>

\* the state of the client (public/app.js); the server's handlers leave it
\* alone
clientVars == <<stateTasks, lastSnapshot, meta, editId, rows, initI, calls>>

\* req.session.userId of a session that is not logged in
NoUser == 0

\* a path parameter :id that is not an ObjectId (not 24 hexadecimal digits)
BadId == 0

Sessions == {"s1", "s2"}

TaskIds == DOMAIN tasks

\* a document built without its owner
NewTaskNoOwner(uid, title, priority, estimateHrs, deadline, notes, important, status, at) ==
  [ owner        |-> NoUser,
    title        |-> title,
    priority     |-> priority,
    estimateHrs  |-> estimateHrs,
    deadline     |-> deadline,
    notes        |-> notes,
    important    |-> important,
    status       |-> status,
    urgencyScore |-> 0,
    createdAt    |-> at ]

\* the documents of the Task model: what new Task({...}) builds in POST
NewTask(uid, title, priority, estimateHrs, deadline, notes, important, status, at) ==
  [ owner        |-> uid,
    title        |-> title,
    priority     |-> priority,
    estimateHrs  |-> estimateHrs,
    deadline     |-> deadline,
    notes        |-> notes,
    important    |-> important,
    status       |-> status,
    urgencyScore |-> 0,
    createdAt    |-> at ]

\* Document validation of TaskSchema, run by task.save(): title required
\* (a non-empty string) and at most maxlength long, priority and status in
\* their enum, estimateHrs within min and max
validate(doc) ==
  /\ doc.title # << >>
  /\ Len(doc.title) <= TitleMaxLen
  /\ doc.priority \in Priorities
  /\ doc.estimateHrs >= EstimateMin
  /\ doc.estimateHrs <= EstimateMax
  /\ doc.status \in Statuses

\* v || "" and v || "active": the value if truthy, else the default string
OrElse(v, dflt) == IF Truthy(v) THEN v ELSE Str(dflt)

\* ["low", "medium", "high", "critical"].includes(v): strict equality
IncludesPriority(v) == v.t = "string" /\ v.s \in Priorities

\* typeof v !== "number" || v <= 0 || v > 100
InvalidEstimate(v) ==
  \/ v.t # "number"
  \/ (v.k = 0 /\ v.n <= 0)
  \/ (v.k > 0 \/ v.n > 100 * 100)

-----------------------------------------------------------------------------
(* requireAuth *)

\* every session let through
requireAuthSkipped(s) == TRUE

\* !req.session || !req.session.userId answers 401, else next()
requireAuth(s) == session[s] # NoUser

-----------------------------------------------------------------------------
(* The answers: Task.find({owner}).sort({createdAt: -1}) mapped to JSON *)

\* the orders in which createdAt never decreases: sort({createdAt: 1})
SortedByCreatedAtAsc(store, ids) ==
  { q \in [1..Cardinality(ids) -> ids] :
      /\ \A i, j \in 1..Cardinality(ids) : i # j => q[i] # q[j]
      /\ \A i, j \in 1..Cardinality(ids) :
            i < j => store[q[i]].createdAt <= store[q[j]].createdAt }

\* every order of the ids in which createdAt never increases; documents with
\* equal createdAt come in an order the database chooses
SortedByCreatedAtDesc(store, ids) ==
  { q \in [1..Cardinality(ids) -> ids] :
      /\ \A i, j \in 1..Cardinality(ids) : i # j => q[i] # q[j]
      /\ \A i, j \in 1..Cardinality(ids) :
            i < j => store[q[i]].createdAt >= store[q[j]].createdAt }

\* t.deadline ? t.deadline.toISOString().slice(0, 10) : null
OutDeadline(t) == IF t.deadline # << >> THEN <<IsoDay(t.deadline)>> ELSE << >>

\* the JSON object GET, POST and PUT answer for one document
OutFull(id, t) ==
  [ id           |-> id,
    title        |-> t.title,
    priority     |-> t.priority,
    estimateHrs  |-> t.estimateHrs,
    deadline     |-> OutDeadline(t),
    notes        |-> t.notes,
    important    |-> t.important,
    status       |-> IF t.status # << >> THEN t.status ELSE S_active,
    urgencyScore |-> t.urgencyScore,
    createdAt    |-> t.createdAt ]

\* the JSON object DELETE answers for one document
OutShort(id, t) ==
  [ id           |-> id,
    title        |-> t.title,
    priority     |-> t.priority,
    estimateHrs  |-> t.estimateHrs,
    deadline     |-> OutDeadline(t),
    urgencyScore |-> t.urgencyScore,
    createdAt    |-> t.createdAt ]

\* req.body: the seven fields the handlers read, Undef when the key is absent
Body(title, priority, estimateHrs, deadline, notes, important, status) ==
  [ title       |-> title,
    priority    |-> priority,
    estimateHrs |-> estimateHrs,
    deadline    |-> deadline,
    notes       |-> notes,
    important   |-> important,
    status      |-> status ]

Fields == {"title", "priority", "estimateHrs", "deadline", "notes", "important", "status"}

EmptyBody == Body(Undef, Undef, Undef, Undef, Undef, Undef, Undef)

Supplied(v) == v.t # "undefined"

SuppliedFields(body) == {f \in Fields : Supplied(body[f])}

\* req.body of /auth/login: username and password, Undef when absent
Cred(username, password) == [username |-> username, password |-> password]

\* the body of a request that is not a login
NoCred == Cred(Undef, Undef)

\* the record of an answer: the number of the request, the route, the
\* session, the :id parameter, the names of the fields the body supplied,
\* the status, the JSON list answered and, for a login, the credentials of
\* the body
Answer(n, op, s, id, fields, code, list) ==
  [n |-> n, op |-> op, sess |-> s, id |-> id, fields |-> fields, code |-> code,
   list |-> list, cred |-> NoCred]

\* what `last` holds after a step that sent no answer
NoAnswer == Answer(0, "none", "s1", BadId, {}, 0, << >>)

\* the in-memory document of a request that holds none
NoTask == NewTask(NoUser, << >>, << >>, 0, << >>, << >>, FALSE, << >>, 0)

\* a request suspended at an await of its handler: its number, the route,
\* the session and the req.session.userId the request arrived with, the :id
\* parameter (for POST the _id of the document new Task() built), the body
\* until the handler has read it and the names of the fields it supplied,
\* the await the request is suspended at, the status it will answer, and
\* (PUT) the document findById loaded, (POST, PUT) the in-memory document to
\* save and the clock time computeDerived read, (login) the credentials of
\* the body
Pending(n, op, s, uid, id, body, phase) ==
  [ n      |-> n,
    op     |-> op,
    sess   |-> s,
    uid    |-> uid,
    id     |-> id,
    body   |-> body,
    fields |-> SuppliedFields(body),
    phase  |-> phase,
    code   |-> 200,
    loaded |-> NoTask,
    doc    |-> NoTask,
    at     |-> 0,
    cred   |-> NoCred ]

\* the number that tells a new request from those suspended: the least that
\* no suspended request of the same route, session and :id has
Ticket(op, s, id) ==
  LET same == {r.n : r \in {q \in inflight : q.op = op /\ q.sess = s /\ q.id = id}}
  IN  CHOOSE k \in 1..(Cardinality(same) + 1) :
        k \notin same /\ \A j \in 1..(k - 1) : j \in same

\* an answer sent when the request arrives, before the handler's first await
Fail(a) ==
  /\ last' = a
  /\ UNCHANGED <<users, session, inflight, tasks, nextId, now>>

\* a request arrives and its handler suspends at its first await
Suspend(r) ==
  /\ inflight' = inflight \cup {r}
  /\ last' = NoAnswer
  /\ UNCHANGED <<users, session, tasks, now>>

\* a suspended request resumes and is answered {error: ...} with the given
\* status: a "return res.status(...)" of its handler, or the catch block when
\* the await threw
Throw(r, code) ==
  /\ last' = [Answer(r.n, r.op, r.sess, r.id, r.fields, code, << >>) EXCEPT !.cred = r.cred]
  /\ inflight' = inflight \ {r}
  /\ UNCHANGED <<users, session, tasks, nextId, now>>

\* a suspended request resumes and suspends again at its next await
Await(r, phase) ==
  /\ inflight' = (inflight \ {r}) \cup
                 {[r EXCEPT !.phase = phase, !.body = EmptyBody,
                            !.loaded = NoTask, !.doc = NoTask, !.at = 0]}
  /\ last' = NoAnswer

\* tasks.map(...) of GET, POST and PUT over a result of Task.find
FullList(q) == [i \in DOMAIN q |-> OutFull(q[i], tasks[q[i]])]

\* tasks.map(...) of DELETE over a result of Task.find
ShortList(q) == [i \in DOMAIN q |-> OutShort(q[i], tasks[q[i]])]

\* the last await of GET, POST, PUT and DELETE settles: Task.find({owner:
\* req.session.userId}).sort(...) on the session the request arrived with,
\* then the list is answered
Find(r) ==
  /\ r \in inflight
  /\ r.phase = "find"
  /\ \E q \in SortedByCreatedAtDesc(tasks, {i \in TaskIds : tasks[i].owner = r.uid}) :
       last' = Answer(r.n, r.op, r.sess, r.id, r.fields, 200,
                      IF r.op = "delete" THEN ShortList(q) ELSE FullList(q))
  /\ inflight' = inflight \ {r}
  /\ UNCHANGED <<users, session, tasks, nextId, now>>

-----------------------------------------------------------------------------
(* GET /api/tasks: requireAuth when the request arrives, then the handler  *)
(* awaits Task.find(); other requests are served while it waits           *)

\* the request arrives: requireAuth, and the handler up to "await Task.find"
GetArrive(n, s) ==
  IF ~requireAuth(s) THEN Fail(Answer(n, "get", s, BadId, {}, 401, << >>))
  ELSE /\ Suspend(Pending(n, "get", s, session[s], BadId, EmptyBody, "find"))
       /\ UNCHANGED nextId

\* "await Task.find(...)" of GET settles and the list is answered
GetFind(r) == r.op = "get" /\ Find(r)

-----------------------------------------------------------------------------
(* POST /api/tasks: the handler awaits task.save() and then Task.find()   *)

\* the checks of the handler that answer 400
PostRejects(body) ==
  \/ ~Truthy(body.title) \/ body.title.t # "string"
  \/ ~IncludesPriority(body.priority)
  \/ InvalidEstimate(body.estimateHrs)
  \/ (Truthy(body.deadline) /\ NewDate(body.deadline) = << >>)

\* new Task({...}) followed by computeDerived, for a body that passed the checks
PostDoc(uid, body, at) ==
  computeDerived(
    NewTask(uid,
            Trim(body.title.s),
            body.priority.s,
            body.estimateHrs.n,
            IF Truthy(body.deadline) THEN NewDate(body.deadline) ELSE << >>,
            JsString(OrElse(body.notes, << >>)),
            Truthy(body.important),
            JsString(OrElse(body.status, S_active)),
            at),
    at)

\* the status POST answers: 400 from the handler's checks, 500 when
\* task.save() throws the schema's validation error (which it does before
\* it sends anything to the database), else 200
PostCode(uid, body, at) ==
  IF PostRejects(body) THEN 400
  ELSE IF ~validate(PostDoc(uid, body, at)) THEN 500
  ELSE 200

\* the request arrives: requireAuth, the checks, new Task() (which makes the
\* document's _id), computeDerived and the validation of task.save(); the
\* handler suspends while save() inserts the document
PostArrive(n, s, body) ==
  IF ~requireAuth(s)
  THEN Fail(Answer(n, "post", s, BadId, SuppliedFields(body), 401, << >>))
  ELSE IF PostCode(session[s], body, now) # 200
  THEN Fail(Answer(n, "post", s, BadId, SuppliedFields(body),
                   PostCode(session[s], body, now), << >>))
  ELSE /\ Suspend([Pending(n, "post", s, session[s], nextId, body, "save") EXCEPT
                     !.body = EmptyBody,
                     !.doc  = PostDoc(session[s], body, now),
                     !.at   = now])
       /\ nextId' = nextId + 1

\* "await task.save()" of POST settles: the document is in the collection
PostSave(r) ==
  /\ r \in inflight
  /\ r.op = "post"
  /\ r.phase = "save"
  /\ tasks' = [i \in TaskIds \cup {r.id} |-> IF i = r.id THEN r.doc ELSE tasks[i]]
  /\ Await(r, "find")
  /\ UNCHANGED <<users, session, nextId, now>>

\* "await Task.find(...)" of POST settles and the list is answered
PostFind(r) == r.op = "post" /\ Find(r)

-----------------------------------------------------------------------------
(* PUT /api/tasks/:id: the handler awaits Task.findById(), task.save() and *)
(* Task.find()                                                            *)

\* body.title !== undefined: task.title = String(body.title).trim()
ApplyTitle(t, body) ==
  IF Supplied(body.title) THEN [t EXCEPT !.title = Trim(JsString(body.title))] ELSE t

InvalidPriority(body) == Supplied(body.priority) /\ ~IncludesPriority(body.priority)

ApplyPriority(t, body) ==
  IF Supplied(body.priority) THEN [t EXCEPT !.priority = body.priority.s] ELSE t

InvalidEstimateHrs(body) ==
  Supplied(body.estimateHrs) /\ InvalidEstimate(body.estimateHrs)

ApplyEstimateHrs(t, body) ==
  IF Supplied(body.estimateHrs) THEN [t EXCEPT !.estimateHrs = body.estimateHrs.n] ELSE t

\* body.deadline === null || body.deadline === ""
ClearsDeadline(body) == body.deadline.t = "null" \/ body.deadline = Str(<< >>)

InvalidDeadline(body) ==
  Supplied(body.deadline) /\ ~ClearsDeadline(body) /\ NewDate(body.deadline) = << >>

ApplyDeadline(t, body) ==
  IF Supplied(body.deadline)
  THEN [t EXCEPT !.deadline = IF ClearsDeadline(body) THEN << >>
                              ELSE NewDate(body.deadline)]
  ELSE t

\* notes written whether or not the body carries them
ApplyNotesAlways(t, body) ==
  [t EXCEPT !.notes = JsString(OrElse(body.notes, << >>))]

\* body.notes !== undefined: task.notes = String(body.notes || "")
ApplyNotes(t, body) ==
  IF Supplied(body.notes)
  THEN [t EXCEPT !.notes = JsString(OrElse(body.notes, << >>))] ELSE t

\* body.important !== undefined: task.important = Boolean(body.important)
ApplyImportant(t, body) ==
  IF Supplied(body.important) THEN [t EXCEPT !.important = Truthy(body.important)] ELSE t

InvalidStatus(body) ==
  Supplied(body.status) /\ ~(body.status.t = "string" /\ body.status.s \in Statuses)

ApplyStatus(t, body) ==
  IF Supplied(body.status) THEN [t EXCEPT !.status = body.status.s] ELSE t

\* the handler from "const body" to task.save(): the fields are applied to
\* the loaded document in the handler's order, then computeDerived(task),
\* whatever the body carries; code is the status answered (500 when
\* task.save() throws the schema's validation error, which it does before it
\* sends anything to the database) and doc the in-memory document at that
\* point (saved only when code = 200)
PutResult(task, body, at) ==
  LET t1 == ApplyTitle(task, body)
      t2 == ApplyPriority(t1, body)
      t3 == ApplyEstimateHrs(t2, body)
      t4 == ApplyDeadline(t3, body)
      t5 == ApplyNotes(t4, body)
      t6 == ApplyImportant(t5, body)
      t7 == ApplyStatus(t6, body)
      t8 == computeDerived(t7, at)
  IN  IF InvalidPriority(body) THEN [code |-> 400, doc |-> t1]
      ELSE IF InvalidEstimateHrs(body) THEN [code |-> 400, doc |-> t2]
      ELSE IF InvalidDeadline(body) THEN [code |-> 400, doc |-> t3]
      ELSE IF InvalidStatus(body) THEN [code |-> 400, doc |-> t6]
      ELSE IF ~validate(t8) THEN [code |-> 500, doc |-> t8]
      ELSE [code |-> 200, doc |-> t8]

\* the owner check left out
NotOwnerSkipped(task, uid) == FALSE

\* task.owner.toString() !== req.session.userId
NotOwner(task, uid) == task.owner # uid

\* the paths of a loaded document that Mongoose has marked modified: those
\* assigned a value that differs from the loaded one
ModifiedPaths(loaded, doc) == {f \in DOMAIN doc : doc[f] # loaded[f]}

\* save() that inserts the document when the collection no longer has it
saveUpsert(store, id, loaded, doc) ==
  IF id \in DOMAIN store
  THEN [store EXCEPT ![id] =
          [f \in DOMAIN doc |->
             IF f \in ModifiedPaths(loaded, doc) THEN doc[f] ELSE store[id][f]]]
  ELSE [i \in DOMAIN store \cup {id} |-> IF i = id THEN doc ELSE store[i]]

\* task.save() of a document loaded by findById: Mongoose sends
\* updateOne({_id}, {$set: <the modified paths>}); the other paths of the
\* stored document keep what the collection holds, and a document that is no
\* longer in the collection is not written (DocumentNotFoundError)
save(store, id, loaded, doc) ==
  IF id \in DOMAIN store
  THEN [store EXCEPT ![id] =
          [f \in DOMAIN doc |->
             IF f \in ModifiedPaths(loaded, doc) THEN doc[f] ELSE store[id][f]]]
  ELSE store

\* the request arrives: requireAuth, and the handler up to
\* "await Task.findById"
PutArrive(n, s, id, body) ==
  IF ~requireAuth(s)
  THEN Fail(Answer(n, "put", s, id, SuppliedFields(body), 401, << >>))
  ELSE /\ Suspend(Pending(n, "put", s, session[s], id, body, "findById"))
       /\ UNCHANGED nextId

\* "await Task.findById(id)" of PUT settles (it throws for an id that is no
\* ObjectId): the 404 and 403 checks, the body applied to the loaded
\* document, computeDerived and the validation of task.save(); the handler
\* suspends while save() writes
PutLoad(r) ==
  /\ r \in inflight
  /\ r.op = "put"
  /\ r.phase = "findById"
  /\ IF r.id = BadId THEN Throw(r, 500)
     ELSE IF r.id \notin TaskIds THEN Throw(r, 404)
     ELSE IF NotOwner(tasks[r.id], r.uid) THEN Throw(r, 403)
     ELSE IF PutResult(tasks[r.id], r.body, now).code # 200
     THEN Throw(r, PutResult(tasks[r.id], r.body, now).code)
     ELSE /\ inflight' = (inflight \ {r}) \cup
                         {[r EXCEPT !.phase  = "save",
                                    !.body   = EmptyBody,
                                    !.loaded = tasks[r.id],
                                    !.doc    = PutResult(tasks[r.id], r.body, now).doc,
                                    !.at     = now]}
          /\ last' = NoAnswer
          /\ UNCHANGED <<users, session, tasks, nextId, now>>

\* "await task.save()" of PUT settles: the modified paths are written, or
\* save() throws because the document is gone and the handler answers 500
PutSave(r) ==
  /\ r \in inflight
  /\ r.op = "put"
  /\ r.phase = "save"
  /\ tasks' = save(tasks, r.id, r.loaded, r.doc)
  /\ IF r.id \notin TaskIds
     THEN /\ last' = Answer(r.n, "put", r.sess, r.id, r.fields, 500, << >>)
          /\ inflight' = inflight \ {r}
     ELSE Await(r, "find")
  /\ UNCHANGED <<users, session, nextId, now>>

\* "await Task.find(...)" of PUT settles and the list is answered
PutFind(r) == r.op = "put" /\ Find(r)

-----------------------------------------------------------------------------
(* DELETE /api/tasks/:id: the handler awaits Task.findById(),             *)
(* Task.deleteOne() and Task.find()                                       *)

\* every document of the identified task's owner removed
deleteOwned(store, id) ==
  [i \in {j \in DOMAIN store : id \in DOMAIN store => store[j].owner # store[id].owner}
     |-> store[i]]

\* Task.deleteOne({ _id: id }): the collection without that document
deleteOne(store, id) == [i \in DOMAIN store \ {id} |-> store[i]]

\* the request arrives: requireAuth, and the handler up to
\* "await Task.findById"
DeleteArrive(n, s, id) ==
  IF ~requireAuth(s) THEN Fail(Answer(n, "delete", s, id, {}, 401, << >>))
  ELSE /\ Suspend(Pending(n, "delete", s, session[s], id, EmptyBody, "findById"))
       /\ UNCHANGED nextId

\* "await Task.findById(id)" of DELETE settles: the 404 and 403 checks; the
\* handler suspends at "await Task.deleteOne()"
DeleteLoad(r) ==
  /\ r \in inflight
  /\ r.op = "delete"
  /\ r.phase = "findById"
  /\ IF r.id = BadId THEN Throw(r, 500)
     ELSE IF r.id \notin TaskIds THEN Throw(r, 404)
     ELSE IF NotOwner(tasks[r.id], r.uid) THEN Throw(r, 403)
     ELSE /\ Await(r, "deleteOne")
          /\ UNCHANGED <<users, session, tasks, nextId, now>>

\* "await Task.deleteOne(...)" settles: the document, if the collection
\* still has it, is removed
DeleteOne(r) ==
  /\ r \in inflight
  /\ r.op = "delete"
  /\ r.phase = "deleteOne"
  /\ tasks' = deleteOne(tasks, r.id)
  /\ Await(r, "find")
  /\ UNCHANGED <<users, session, nextId, now>>

\* "await Task.find(...)" of DELETE settles and the list is answered
DeleteFind(r) == r.op = "delete" /\ Find(r)

-----------------------------------------------------------------------------
(* Accounts: /auth/login, /auth/logout, /auth/me *)

\* bcrypt.hash: a value that bcrypt.compare matches with that password only
\* (modelled input domain: passwords of at most 72 bytes, which bcrypt
\* hashes in full)
Hash(password) == <<"$">> \o password

createUser(username, password) ==
  [username |-> username, passwordHash |-> Hash(password)]

\* bcrypt.hash and bcrypt.compare reject data that is no string, before they
\* start their work
BcryptThrows(password) == password.t # "string"

\* accepts every password
verifyPasswordAny(user, password) == TRUE

\* verifyPassword: bcrypt.compare(password, user.passwordHash)
verifyPassword(user, password) == user.passwordHash = Hash(password.s)

\* Document validation of UserSchema, run by user.save(): username and
\* passwordHash required (non-empty strings)
validateUser(user) == user.username # << >> /\ user.passwordHash # << >>

\* !username || !password
LoginRejects(body) == ~Truthy(body.username) \/ ~Truthy(body.password)

\* String(username).trim().toLowerCase()
normalized(username) == ToLowerCase(Trim(JsString(username)))

\* User.findOne({ username }): the _id of the account, NoUser for null
findOne(username) ==
  IF \E i \in DOMAIN users : users[i].username = username
  THEN CHOOSE i \in DOMAIN users : users[i].username = username
  ELSE NoUser

\* an answer of /auth/login
LoginAnswer(n, s, body, code) ==
  [Answer(n, "login", s, BadId, {}, code, << >>) EXCEPT !.cred = body]

\* the request arrives: the check of the body, and the handler up to
\* "await User.findOne"
LoginArrive(n, s, body) ==
  IF LoginRejects(body) THEN Fail(LoginAnswer(n, s, body, 400))
  ELSE /\ Suspend([Pending(n, "login", s, NoUser, BadId, EmptyBody, "findOne")
                     EXCEPT !.cred = body])
       /\ UNCHANGED nextId

\* "await User.findOne()" settles: with no account the handler goes into
\* createUser and suspends at "await bcrypt.hash", with one it suspends at
\* bcrypt.compare of verifyPassword; bcrypt rejects a password that is no
\* string at once and the catch block answers 500
LoginFind(r) ==
  /\ r \in inflight
  /\ r.op = "login"
  /\ r.phase = "findOne"
  /\ IF BcryptThrows(r.cred.password) THEN Throw(r, 500)
     ELSE /\ inflight' = (inflight \ {r}) \cup
               { IF findOne(normalized(r.cred.username)) = NoUser
                 THEN [r EXCEPT !.phase = "hash", !.code = 201]
                 ELSE [r EXCEPT !.phase = "compare",
                                !.uid = findOne(normalized(r.cred.username))] }
          /\ last' = NoAnswer
          /\ UNCHANGED <<users, session, tasks, nextId, now>>

\* "await bcrypt.hash()" of createUser settles: new User and the validation
\* of user.save(), which throws before it sends anything to the database;
\* the handler suspends while save() inserts the account
LoginHash(r) ==
  /\ r \in inflight
  /\ r.op = "login"
  /\ r.phase = "hash"
  /\ IF ~validateUser(createUser(normalized(r.cred.username), r.cred.password.s))
     THEN Throw(r, 500)
     ELSE /\ Await(r, "userSave")
          /\ UNCHANGED <<users, session, tasks, nextId, now>>

\* "await user.save()" of createUser settles: the account is inserted, or
\* save() throws the duplicate-key error of the unique index on username
\* because an account of that name was saved since findOne
LoginUserSave(r) ==
  /\ r \in inflight
  /\ r.op = "login"
  /\ r.phase = "userSave"
  /\ IF findOne(normalized(r.cred.username)) # NoUser
     THEN Throw(r, 500)
     ELSE /\ users' = Append(users, createUser(normalized(r.cred.username),
                                               r.cred.password.s))
          /\ inflight' = (inflight \ {r}) \cup
                         {[r EXCEPT !.phase = "sessionSave", !.uid = Len(users) + 1]}
          /\ last' = NoAnswer
          /\ UNCHANGED <<session, tasks, nextId, now>>

\* "await verifyPassword()" settles: 401 for another password than the
\* account's, else the handler suspends at "await req.session.save()"
LoginCompare(r) ==
  /\ r \in inflight
  /\ r.op = "login"
  /\ r.phase = "compare"
  /\ IF ~verifyPassword(users[r.uid], r.cred.password)
     THEN Throw(r, 401)
     ELSE /\ Await(r, "sessionSave")
          /\ UNCHANGED <<users, session, tasks, nextId, now>>

\* req.session.userId = user._id.toString(), "await req.session.save()"
\* settles and the handler answers
LoginSession(r) ==
  /\ r \in inflight
  /\ r.op = "login"
  /\ r.phase = "sessionSave"
  /\ session' = [session EXCEPT ![r.sess] = r.uid]
  /\ last' = LoginAnswer(r.n, r.sess, r.cred, r.code)
  /\ inflight' = inflight \ {r}
  /\ UNCHANGED <<users, tasks, nextId, now>>

\* a logout that leaves the session as it is
destroyKept(sess, s) == sess

\* req.session.destroy(): the session's cookie no longer names a user
destroy(sess, s) == [sess EXCEPT ![s] = NoUser]

\* POST /auth/logout arrives: req.session.destroy() is called and its
\* callback awaits the session store
LogoutArrive(n, s) ==
  /\ Suspend(Pending(n, "logout", s, session[s], BadId, EmptyBody, "destroy"))
  /\ UNCHANGED nextId

\* the callback of req.session.destroy() runs: the session is gone from the
\* store and the handler answers
LogoutDestroy(r) ==
  /\ r \in inflight
  /\ r.op = "logout"
  /\ r.phase = "destroy"
  /\ session' = destroy(session, r.sess)
  /\ last' = Answer(r.n, "logout", r.sess, BadId, {}, 200, << >>)
  /\ inflight' = inflight \ {r}
  /\ UNCHANGED <<users, tasks, nextId, now>>

\* GET /auth/me arrives: {authenticated: false} for a session without a
\* userId (answered here as the empty list), else the handler suspends at
\* "await User.findById"
MeArrive(n, s) ==
  IF session[s] = NoUser THEN Fail(Answer(n, "me", s, BadId, {}, 200, << >>))
  ELSE /\ Suspend(Pending(n, "me", s, session[s], BadId, EmptyBody, "findById"))
       /\ UNCHANGED nextId

\* "await User.findById(req.session.userId)" settles: {authenticated: true,
\* user}, answered here as the list of the user's name, or {authenticated:
\* false} when the account is not found
MeFind(r) ==
  /\ r \in inflight
  /\ r.op = "me"
  /\ r.phase = "findById"
  /\ last' = Answer(r.n, "me", r.sess, BadId, {}, 200,
                    IF r.uid \notin DOMAIN users THEN << >>
                    ELSE <<users[r.uid].username>>)
  /\ inflight' = inflight \ {r}
  /\ UNCHANGED <<users, session, tasks, nextId, now>>

-----------------------------------------------------------------------------
(* Request bodies *)

Bogus == <<"b", "o", "g", "u", "s">>

\* the values a request may carry for each field: in and out of the
\* declared domain, at its borders, and of another JSON type
FieldValues(f) ==
  CASE f = "title" ->
         { Str(<< >>), Str(<<" ", " ">>), Str(<<" ", "a", " ">>),
           Str(Rep("a", TitleMaxLen)), Str(Rep("a", TitleMaxLen + 1)), Num(1200) }
    [] f = "priority" ->
         { Str(P_critical), Str(Bogus), Num(100) }
    [] f = "estimateHrs" ->
         { Num(0), Num(5), Num(EstimateMax), Num(EstimateMax + 1), Str(<<"3">>) }
    [] f = "deadline" ->
         { Null, Str(<< >>), Str(<<"2", "0", "2", "5", "-", "0", "1", "-", "0", "2">>),
           Str(<<"2", "0", "2", "5", "-", "0", "2", "-", "3", "0">>), Str(Bogus),
           Num(150000) }
    [] f = "notes" ->
         { Str(<<"n">>) }
    [] f = "important" ->
         { Bool(TRUE) }
    [] OTHER ->
         { Str(S_done), Str(Bogus), Str(<< >>) }

\* a body accepted by POST: the fields a create must carry, in their domains
BaseBody ==
  Body(Str(<<"a">>), Str(P_low), Num(EstimateMin), Undef, Undef, Undef, Undef)

\* b with field f set to v
With(b, f, v) == [b EXCEPT ![f] = v]

\* the fields the handlers validate; notes and important take any value
Validated == {"title", "priority", "estimateHrs", "deadline", "status"}

\* the bodies that differ from b in at most two validated fields
Variants(b) ==
  LET One(c) == UNION { { With(c, f, v) : v \in FieldValues(f) } : f \in Validated }
  IN  {b} \cup One(b) \cup UNION { One(c) : c \in One(b) }

\* single-document scenario: all combinations of up to two validated fields
PostBodiesWide == Variants(BaseBody)

PutBodiesWide == Variants(EmptyBody)

\* multi-user scenario: a create that carries all seven fields, with the
\* deadline 2024-12-31
PostBodies ==
  { Body(Str(<<"a">>), Str(P_low), Num(EstimateMin),
         Str(<<"2", "0", "2", "4", "-", "1", "2", "-", "3", "1">>),
         Str(<<"n">>), Bool(TRUE), Str(S_backlog)) }

-----------------------------------------------------------------------------
(* The client: public/app.js *)

\* the session whose cookie the client's browser holds
ClientSession == "s1"

\* getMetaFor's value for a task without stored metadata
DefaultMeta == [notes |-> << >>, important |-> FALSE, status |-> S_active]

\* state.meta[id] || { notes: "", important: false, status: "active" }
getMetaFor(m, id) == IF id \in DOMAIN m THEN m[id] ELSE DefaultMeta

\* state.meta[id] = { notes: x.notes || "", important: !!x.important,
\*                    status: x.status || "active" }
setMetaFor(m, id, x) ==
  [i \in DOMAIN m \cup {id} |->
     IF i = id
     THEN [ notes     |-> x.notes,
            important |-> x.important,
            status    |-> IF x.status = << >> THEN S_active ELSE x.status ]
     ELSE m[i]]

\* delete state.meta[id]
deleteMeta(m, id) == [i \in DOMAIN m \ {id} |-> m[i]]

\* { ...t, notes: x.notes, important: x.important, status: x.status }
WithMeta(t, x) ==
  [t EXCEPT !.notes = x.notes, !.important = x.important, !.status = x.status]

\* res.map((t) => ({ ...t, ...getMetaFor(t.id) }))
MapMeta(res, m) == [i \in DOMAIN res |-> WithMeta(res[i], getMetaFor(m, res[i].id))]

\* the ids of a task list
IdsOf(list) == {list[i].id : i \in DOMAIN list}

\* the form as the user left it: the validated fields as typed, and notes,
\* important and status
Form(title, x) ==
  [ title       |-> title,
    priority    |-> P_low,
    estimateHrs |-> EstimateMin,
    deadline    |-> << >>,
    notes       |-> x.notes,
    important   |-> x.important,
    status      |-> x.status ]

\* the body the submit handler sends: { ...data, notes, important, status }
FormBody(form) ==
  Body(Str(Trim(form.title)),
       Str(form.priority),
       Num(form.estimateHrs),
       IF form.deadline = << >> THEN Null ELSE Str(form.deadline),
       Str(form.notes),
       Bool(form.important),
       Str(IF form.status = << >> THEN S_active ELSE form.status))

\* an api() call whose fetch has not resolved in the page: the number of its
\* request, the method ("me" and "logout" for the /auth routes, "timer" for
\* the setTimeout of init), the :id of the path, the body, the metadata
\* submitted with it, for a create, edit or delete the list the client held
\* when the call was made, once the server has answered, the status and the
\* list of the response on its way to the page, and whether the page that
\* made the call has been left by a reload since
Call(n, kind, id, body, x, held) ==
  [n |-> n, kind |-> kind, id |-> id, body |-> body, sub |-> x, held |-> held,
   answered |-> FALSE, code |-> 0, list |-> << >>, left |-> FALSE]

\* fetchTasks up to "await api(GET)"; id and x name the task and metadata of
\* the create or edit whose handler awaits this fetch (BadId for none)
FetchCall(n, id, x) == Call(n, "get", id, EmptyBody, x, << >>)

\* a call that carries nothing but its method: fetchUser's GET /auth/me, the
\* logout button's POST /auth/logout, init's setTimeout
PlainCall(n, kind) == Call(n, kind, BadId, EmptyBody, DefaultMeta, << >>)

\* the number a new call gets: the least that no call awaiting has
FreshN ==
  CHOOSE k \in 1..(Cardinality(calls) + 1) :
    /\ \A c \in calls : c.n # k
    /\ \A j \in 1..(k - 1) : \E c \in calls : c.n = j

\* the calls whose result the page still awaits
Awaited == {c \in calls : ~c.left}

\* a step of the page: the server does nothing
Page ==
  /\ last' = NoAnswer
  /\ UNCHANGED <<users, session, tasks, nextId, now, inflight>>

\* enterEditMode(id), from the Edit button of a row: the task, if state.tasks
\* has it, is put into the form and its id into "edit-id"
EnterEditMode(id) ==
  /\ id \in rows
  /\ id \in IdsOf(stateTasks)
  /\ editId' = id
  /\ UNCHANGED <<stateTasks, lastSnapshot, meta, rows, initI, calls>>
  /\ Page

\* resetForm, from the Cancel button (shown in edit mode)
CancelEdit ==
  /\ editId # BadId
  /\ editId' = BadId
  /\ UNCHANGED <<stateTasks, lastSnapshot, meta, rows, initI, calls>>
  /\ Page

\* the submit handler up to "await api(...)": the snapshot is taken and the
\* POST (no edit-id) or the PUT of the task "edit-id" names is sent
Submit(form) ==
  /\ lastSnapshot' = stateTasks
  /\ calls' = calls \cup
       { Call(FreshN, IF editId = BadId THEN "post" ELSE "put",
              editId, FormBody(form),
              [ notes     |-> form.notes,
                important |-> form.important,
                status    |-> IF form.status = << >> THEN S_active ELSE form.status ],
              stateTasks) }
  /\ UNCHANGED <<stateTasks, meta, editId, rows, initI>>
  /\ Page

\* handleDelete(id), from the Delete button of a row, up to
\* "await api(DELETE)"
HandleDelete(id) ==
  /\ id \in rows
  /\ lastSnapshot' = stateTasks
  /\ calls' = calls \cup {Call(FreshN, "delete", id, EmptyBody, DefaultMeta, stateTasks)}
  /\ UNCHANGED <<stateTasks, meta, editId, rows, initI>>
  /\ Page

\* the click handler of the logout button up to "await api(POST)"
LogoutClick ==
  /\ calls' = calls \cup {PlainCall(FreshN, "logout")}
  /\ UNCHANGED <<stateTasks, lastSnapshot, meta, editId, rows, initI>>
  /\ Page

\* the request of a call has reached no handler yet
Sent(c) ==
  /\ c \in calls
  /\ c.kind # "timer"
  /\ ~c.answered
  /\ \A r \in inflight : r.sess = ClientSession => r.n # c.n

\* what a step of the server means to the page: nothing but a response on
\* its way to the call the step answered (the body of a DELETE's response is
\* not read, and the POST's is kept with the _id of the document the POST
\* inserted), to no one when the page that made the call was left; no
\* handler of the page runs
Fetch ==
  /\ calls' =
       { d \in { IF last'.op # "none" /\ last'.sess = ClientSession /\ last'.n = c.n
                 THEN [c EXCEPT !.answered = TRUE,
                                !.code = last'.code,
                                !.list = IF c.kind = "delete" THEN << >> ELSE last'.list,
                                !.id   = IF c.kind = "post" THEN last'.id ELSE c.id]
                 ELSE c : c \in calls } :
           ~(d.left /\ d.answered) }
  /\ UNCHANGED <<stateTasks, lastSnapshot, meta, editId, rows, initI>>

\* catch (err): state.tasks = state.lastSnapshot; renderTasks()
Rollback(c) ==
  /\ stateTasks' = lastSnapshot
  /\ rows' = IdsOf(lastSnapshot)
  /\ calls' = calls \ {c}
  /\ UNCHANGED <<lastSnapshot, meta, editId, initI>>

\* the index of the task the submit handler takes for the created one: the
\* first of the list whose id the snapshot lacks, else the first, else none
NewTaskIndex(list, snapshot) ==
  LET fresh == {i \in DOMAIN list : list[i].id \notin IdsOf(snapshot)}
  IN  IF fresh # {} THEN CHOOSE i \in fresh : \A j \in fresh : i <= j
      ELSE IF Len(list) > 0 THEN 1
      ELSE 0

\* the response of the POST reaches the page: the submit handler goes on
\* from "await api(POST)" through resetForm to "await fetchTasks()", or to
\* its catch
DeliverPost(c) ==
  /\ c \in Awaited /\ c.kind = "post" /\ c.answered
  /\ IF c.code = 200
     THEN LET mapped == MapMeta(c.list, meta)
              k      == NewTaskIndex(mapped, lastSnapshot)
          IN  /\ meta' = IF k = 0 THEN meta ELSE setMetaFor(meta, mapped[k].id, c.sub)
              /\ stateTasks' = IF k = 0 THEN mapped
                               ELSE [mapped EXCEPT ![k] = WithMeta(mapped[k], c.sub)]
              /\ editId' = BadId
              /\ calls' = (calls \ {c}) \cup {FetchCall(c.n, c.id, c.sub)}
              /\ UNCHANGED <<lastSnapshot, rows, initI>>
     ELSE Rollback(c)
  /\ Page

\* the response of the PUT reaches the page and the submit handler goes on
DeliverPut(c) ==
  /\ c \in Awaited /\ c.kind = "put" /\ c.answered
  /\ IF c.code = 200
     THEN /\ stateTasks' = MapMeta(c.list, meta)
          /\ meta' = setMetaFor(meta, c.id, c.sub)
          /\ editId' = BadId
          /\ calls' = (calls \ {c}) \cup {FetchCall(c.n, c.id, c.sub)}
          /\ UNCHANGED <<lastSnapshot, rows, initI>>
     ELSE Rollback(c)
  /\ Page

\* the response of the DELETE reaches the page and handleDelete goes on
DeliverDelete(c) ==
  /\ c \in Awaited /\ c.kind = "delete" /\ c.answered
  /\ IF c.code = 200
     THEN /\ meta' = deleteMeta(meta, c.id)
          /\ calls' = (calls \ {c}) \cup {FetchCall(c.n, BadId, DefaultMeta)}
          /\ UNCHANGED <<stateTasks, lastSnapshot, editId, rows, initI>>
     ELSE Rollback(c)
  /\ Page

\* the response of fetchTasks' GET reaches the page: the list is mapped and
\* rendered or, in the catch, the error is shown
DeliverGet(c) ==
  /\ c \in Awaited /\ c.kind = "get" /\ c.answered
  /\ stateTasks' = IF c.code = 200 THEN MapMeta(c.list, meta) ELSE stateTasks
  /\ rows' = IF c.code = 200 THEN IdsOf(c.list) ELSE rows
  /\ calls' = calls \ {c}
  /\ UNCHANGED <<lastSnapshot, meta, editId, initI>>
  /\ Page

\* the number of times init calls fetchUser before it gives up
InitTries == 5

\* the response of fetchUser's GET /auth/me reaches the page: init goes on to
\* "await fetchTasks()" when it says authenticated, else to its setTimeout
DeliverMe(c) ==
  /\ c \in Awaited /\ c.kind = "me" /\ c.answered
  /\ calls' = (calls \ {c}) \cup
              { IF c.code = 200 /\ c.list # << >>
                THEN FetchCall(c.n, BadId, DefaultMeta)
                ELSE PlainCall(c.n, "timer") }
  /\ UNCHANGED <<stateTasks, lastSnapshot, meta, editId, rows, initI>>
  /\ Page

\* init's setTimeout fires: the loop calls fetchUser again, or ends and
\* init returns
DeliverTimer(c) ==
  /\ c \in Awaited /\ c.kind = "timer"
  /\ initI' = initI + 1
  /\ calls' = (calls \ {c}) \cup
              (IF initI + 1 < InitTries THEN {PlainCall(c.n, "me")} ELSE {})
  /\ UNCHANGED <<stateTasks, lastSnapshot, meta, editId, rows>>
  /\ Page

\* the response of the POST /auth/logout reaches the page, whatever it says:
\* window.location.reload().  The page is loaded anew, with state.meta read
\* from localStorage, and init runs; the requests of the page that was left
\* are still served when they reach the server, their responses reach no one
DeliverLogout(c) ==
  /\ c \in Awaited /\ c.kind = "logout" /\ c.answered
  /\ stateTasks' = << >>
  /\ lastSnapshot' = << >>
  /\ editId' = BadId
  /\ rows' = {}
  /\ initI' = 0
  /\ calls' = { [d EXCEPT !.left = TRUE] :
                  d \in {e \in calls \ {c} : e.kind # "timer" /\ ~e.answered} }
              \cup {PlainCall(c.n, "me")}
  /\ UNCHANGED meta
  /\ Page

-----------------------------------------------------------------------------
(* Specifications *)

\* the most documents a behaviour of the multi-user scenario creates
MaxTasks == 2

\* the clock starts at 2025-01-01T22:00:00Z and advances in steps
ClockStart == 79200

TickStep == 5400

MaxTicks == 1

\* after construction: no account, no session logged in, no document
Init ==
  /\ users = << >>
  /\ session = [s \in Sessions |-> NoUser]
  /\ tasks = << >>
  /\ nextId = 1
  /\ now = ClockStart
  /\ last = NoAnswer
  /\ inflight = {}
  /\ stateTasks = << >>
  /\ lastSnapshot = << >>
  /\ meta = << >>
  /\ editId = BadId
  /\ rows = {}
  /\ initI = 0
  /\ calls = {}

\* two accounts exist and each session is logged in as one of them
InitTasks ==
  /\ users = << createUser(<<"a", "n", "n">>, <<"p">>),
                createUser(<<"b", "o", "b">>, <<"q">>) >>
  /\ session = [s \in Sessions |-> IF s = "s1" THEN 1 ELSE 2]
  /\ tasks = << >>
  /\ nextId = 1
  /\ now = ClockStart
  /\ last = NoAnswer
  /\ inflight = {}
  /\ stateTasks = << >>
  /\ lastSnapshot = << >>
  /\ meta = << >>
  /\ editId = BadId
  /\ rows = {}
  /\ initI = 0
  /\ calls = {}

\* the clock that new Date() reads advances; nothing else changes
TickNext ==
  /\ now + TickStep <= ClockStart + MaxTicks * TickStep
  /\ now' = now + TickStep
  /\ last' = NoAnswer
  /\ UNCHANGED <<users, session, inflight, tasks, nextId>>
  /\ UNCHANGED clientVars

\* no request is suspended: the scenarios of requests that come one after
\* another start a request only then
Idle == inflight = {}

\* at most one request is suspended: the scenarios in which a GET, a DELETE,
\* a logout or /auth/me is served while another request waits start it only
\* then
OneAhead == \A r, q \in inflight : r = q

\* several users, several documents, few bodies; the requests come one
\* after another, each served through the awaits of its handler, and a GET
\* is served also while another request is suspended.  A PUT or a DELETE
\* names an id in 0..MaxTasks: stored, not stored, or no ObjectId at all;
\* the updates are one that supplies nothing, one that succeeds and one
\* that fails
NextTasks ==
  \/ \E s \in Sessions :
        /\ OneAhead
        /\ GetArrive(Ticket("get", s, BadId), s)
        /\ UNCHANGED clientVars
  \/ \E r \in inflight : GetFind(r) /\ UNCHANGED clientVars
  \/ \E s \in Sessions, b \in PostBodies :
        Idle /\ nextId <= MaxTasks /\ PostArrive(Ticket("post", s, nextId), s, b) /\ UNCHANGED clientVars
  \/ \E r \in inflight : PostSave(r) /\ UNCHANGED clientVars
  \/ \E r \in inflight : PostFind(r) /\ UNCHANGED clientVars
  \/ \E s \in Sessions, id \in 0..MaxTasks,
          b \in { EmptyBody,
                  With(With(EmptyBody, "priority", Str(P_high)), "status", Str(S_done)),
                  With(With(EmptyBody, "priority", Str(P_high)), "status", Str(Bogus)) } :
        Idle /\ PutArrive(Ticket("put", s, id), s, id, b) /\ UNCHANGED clientVars
  \/ \E r \in inflight : PutLoad(r) /\ UNCHANGED clientVars
  \/ \E r \in inflight : PutSave(r) /\ UNCHANGED clientVars
  \/ \E r \in inflight : PutFind(r) /\ UNCHANGED clientVars
  \/ \E s \in Sessions, id \in 0..MaxTasks :
        Idle /\ DeleteArrive(Ticket("delete", s, id), s, id) /\ UNCHANGED clientVars
  \/ \E r \in inflight : DeleteLoad(r) /\ UNCHANGED clientVars
  \/ \E r \in inflight : DeleteOne(r) /\ UNCHANGED clientVars
  \/ \E r \in inflight : DeleteFind(r) /\ UNCHANGED clientVars
  \/ TickNext

SpecTasks == InitTasks /\ [][NextTasks]_vars

\* one user, one document, every combination of up to two fields; the
\* requests come one after another
NextFields ==
  \/ \E b \in PostBodiesWide :
        Idle /\ TaskIds = {} /\ PostArrive(Ticket("post", "s1", nextId), "s1", b) /\ UNCHANGED clientVars
  \/ \E r \in inflight : PostSave(r) /\ UNCHANGED clientVars
  \/ \E r \in inflight : PostFind(r) /\ UNCHANGED clientVars
  \/ \E id \in TaskIds, b \in PutBodiesWide :
        Idle /\ PutArrive(Ticket("put", "s1", id), "s1", id, b) /\ UNCHANGED clientVars
  \/ \E r \in inflight : PutLoad(r) /\ UNCHANGED clientVars
  \/ \E r \in inflight : PutSave(r) /\ UNCHANGED clientVars
  \/ \E r \in inflight : PutFind(r) /\ UNCHANGED clientVars
  \/ TickNext

SpecFields == InitTasks /\ [][NextFields]_vars

\* the deadlines of the scoring scenario: the instants of UTC midnight of
\* days counted from 2025-01-01 (in the past, within hours and days of the
\* clock, and months and years ahead), and instants within a second, just
\* less and just more than one hour after the clock's start
UrgencyDeadlines ==
  {<<k * SecPerDay, 0>> : k \in {0 - 1, 1, 2, 3, 31, 151, 365, 366, 1095}}
  \cup { <<ClockStart + SecPerHour - 1, 500>>,
         <<ClockStart + SecPerHour, 1>>,
         <<ClockStart + SecPerHour + 1, 999>> }

\* the value a request carries for such a deadline: the date-only string of
\* the day, or the time in milliseconds since 1970-01-01 of the instant
UrgencyValue(d) ==
  IF d[2] = 0 THEN Str(IsoDay(d))
  ELSE Big(d[1] + EpochDay * SecPerDay, 100 * d[2])

\* creates of every priority, with each deadline and with none
UrgencyPostBodies ==
  { With(BaseBody, "priority", Str(p)) : p \in Priorities }
  \cup { With(With(BaseBody, "priority", Str(p)), "deadline", UrgencyValue(d)) :
           p \in Priorities, d \in UrgencyDeadlines }

\* updates of the priority or of the deadline (set or cleared), and none
UrgencyPutBodies ==
  { EmptyBody, With(EmptyBody, "deadline", Null) }
  \cup { With(EmptyBody, "priority", Str(p)) : p \in Priorities }
  \cup { With(EmptyBody, "deadline", UrgencyValue(d)) : d \in UrgencyDeadlines }

\* one task, scored at every priority, deadline and clock time; the
\* requests come one after another
NextUrgency ==
  \/ \E b \in UrgencyPostBodies :
        Idle /\ TaskIds = {} /\ PostArrive(Ticket("post", "s1", nextId), "s1", b) /\ UNCHANGED clientVars
  \/ \E r \in inflight : PostSave(r) /\ UNCHANGED clientVars
  \/ \E r \in inflight : PostFind(r) /\ UNCHANGED clientVars
  \/ \E id \in TaskIds, b \in UrgencyPutBodies :
        Idle /\ PutArrive(Ticket("put", "s1", id), "s1", id, b) /\ UNCHANGED clientVars
  \/ \E r \in inflight : PutLoad(r) /\ UNCHANGED clientVars
  \/ \E r \in inflight : PutSave(r) /\ UNCHANGED clientVars
  \/ \E r \in inflight : PutFind(r) /\ UNCHANGED clientVars
  \/ TickNext

SpecUrgency == InitTasks /\ [][NextUrgency]_vars

\* the most documents a behaviour of the overlapping and login scenarios creates
MaxRaceTasks == 1

\* the most requests suspended at an await at a time
MaxInflight == 2

\* the most accounts a behaviour of the login scenario creates
MaxUsers == 2

\* the most logins suspended at an await at a time
MaxLogins == 2

Name_ann == <<"a", "n", "n">>

Name_Ann_padded == <<" ", "A", "n", "n", " ">>

\* the bodies a login may carry: a credential absent, a blank username, a
\* password of another JSON type, and usernames that differ in case and
\* outer white space only, with one password or another
LoginBodies ==
  { Cred(Undef, Str(<<"p">>)),
    Cred(Str(Name_ann), Undef),
    Cred(Str(<<" ", " ">>), Str(<<"p">>)),
    Cred(Str(Name_ann), Num(500)),
    Cred(Str(Name_ann), Str(<<"p">>)),
    Cred(Str(Name_Ann_padded), Str(<<"p">>)),
    Cred(Str(Name_Ann_padded), Str(<<"q">>)),
    Cred(Str(<<"b", "o", "b">>), Str(<<"q">>)) }

\* sessions that log in and out, and the /api/tasks routes on them (one
\* document stored at a time).  A login, POST or PUT arrives when no request
\* is suspended; a logout, /auth/me, GET or DELETE arrives also while
\* another request is suspended
NextAuth ==
  \/ \E s \in Sessions, b \in LoginBodies :
        /\ Idle
        /\ (~LoginRejects(b) /\ findOne(normalized(b.username)) = NoUser) => Len(users) < MaxUsers
        /\ LoginArrive(Ticket("login", s, BadId), s, b)
        /\ UNCHANGED clientVars
  \/ \E r \in inflight : LoginFind(r) /\ UNCHANGED clientVars
  \/ \E r \in inflight : LoginHash(r) /\ UNCHANGED clientVars
  \/ \E r \in inflight : LoginUserSave(r) /\ UNCHANGED clientVars
  \/ \E r \in inflight : LoginCompare(r) /\ UNCHANGED clientVars
  \/ \E r \in inflight : LoginSession(r) /\ UNCHANGED clientVars
  \/ \E s \in Sessions :
        /\ OneAhead
        /\ LogoutArrive(Ticket("logout", s, BadId), s)
        /\ UNCHANGED clientVars
  \/ \E r \in inflight : LogoutDestroy(r) /\ UNCHANGED clientVars
  \/ \E s \in Sessions :
        /\ OneAhead
        /\ MeArrive(Ticket("me", s, BadId), s)
        /\ UNCHANGED clientVars
  \/ \E r \in inflight : MeFind(r) /\ UNCHANGED clientVars
  \/ \E s \in Sessions :
        /\ OneAhead
        /\ GetArrive(Ticket("get", s, BadId), s)
        /\ UNCHANGED clientVars
  \/ \E r \in inflight : GetFind(r) /\ UNCHANGED clientVars
  \/ \E s \in Sessions, b \in PostBodies :
        /\ Idle
        /\ requireAuth(s) => (TaskIds = {} /\ nextId <= MaxRaceTasks)
        /\ PostArrive(Ticket("post", s, nextId), s, b)
        /\ UNCHANGED clientVars
  \/ \E r \in inflight : PostSave(r) /\ UNCHANGED clientVars
  \/ \E r \in inflight : PostFind(r) /\ UNCHANGED clientVars
  \/ \E s \in Sessions, id \in TaskIds :
        Idle /\ PutArrive(Ticket("put", s, id), s, id, EmptyBody) /\ UNCHANGED clientVars
  \/ \E r \in inflight : PutLoad(r) /\ UNCHANGED clientVars
  \/ \E r \in inflight : PutSave(r) /\ UNCHANGED clientVars
  \/ \E r \in inflight : PutFind(r) /\ UNCHANGED clientVars
  \/ \E s \in Sessions, id \in TaskIds :
        OneAhead /\ DeleteArrive(Ticket("delete", s, id), s, id) /\ UNCHANGED clientVars
  \/ \E r \in inflight : DeleteLoad(r) /\ UNCHANGED clientVars
  \/ \E r \in inflight : DeleteOne(r) /\ UNCHANGED clientVars
  \/ \E r \in inflight : DeleteFind(r) /\ UNCHANGED clientVars

SpecAuth == Init /\ [][NextAuth]_vars

\* logins that overlap: a login, a logout or /auth/me arrives while other
\* requests are suspended at an await; the logins are of one name in two
\* spellings, with one password or another
NextLogins ==
  \/ \E s \in Sessions,
          b \in { Cred(Str(Name_ann), Str(<<"p">>)),
                  Cred(Str(Name_Ann_padded), Str(<<"p">>)),
                  Cred(Str(Name_Ann_padded), Str(<<"q">>)) } :
        /\ Cardinality(inflight) < MaxLogins
        /\ LoginArrive(Ticket("login", s, BadId), s, b)
        /\ UNCHANGED clientVars
  \/ \E r \in inflight : LoginFind(r) /\ UNCHANGED clientVars
  \/ \E r \in inflight : LoginHash(r) /\ UNCHANGED clientVars
  \/ \E r \in inflight : LoginUserSave(r) /\ UNCHANGED clientVars
  \/ \E r \in inflight : LoginCompare(r) /\ UNCHANGED clientVars
  \/ \E r \in inflight : LoginSession(r) /\ UNCHANGED clientVars
  \/ \E s \in Sessions :
        /\ Cardinality(inflight) < MaxLogins
        /\ LogoutArrive(Ticket("logout", s, BadId), s)
        /\ UNCHANGED clientVars
  \/ \E r \in inflight : LogoutDestroy(r) /\ UNCHANGED clientVars
  \/ \E s \in Sessions :
        /\ Cardinality(inflight) < MaxLogins
        /\ MeArrive(Ticket("me", s, BadId), s)
        /\ UNCHANGED clientVars
  \/ \E r \in inflight : MeFind(r) /\ UNCHANGED clientVars

SpecLogins == Init /\ [][NextLogins]_vars

\* the client's page was just loaded in a logged-in session: both sessions
\* are of one user and init()'s first fetchUser awaits its response
InitClient ==
  /\ users = << createUser(Name_ann, <<"p">>) >>
  /\ session = [s \in Sessions |-> 1]
  /\ tasks = << >>
  /\ nextId = 1
  /\ now = ClockStart
  /\ last = NoAnswer
  /\ inflight = {}
  /\ stateTasks = << >>
  /\ lastSnapshot = << >>
  /\ meta = << >>
  /\ editId = BadId
  /\ rows = {}
  /\ initI = 0
  /\ calls = {PlainCall(1, "me")}

\* the most api() calls of the client awaiting a response at a time
MaxCalls == 2

\* the most documents a behaviour of the overlapping client creates
MaxClientTasks == 1

\* the most documents the client and the other session create together
MaxStaleTasks == 2

Meta_n == [notes |-> <<"n">>, important |-> TRUE, status |-> S_backlog]

\* a form the server accepts
GoodForm(x) == Form(<<"a">>, x)

\* a client whose operations overlap: a create, edit, delete or logout is
\* started while earlier calls still await their responses; the server
\* handles the requests through the awaits of their handlers, and the
\* responses reach the page in any order; a form is submitted that the
\* server accepts, or one it rejects (the title left empty)
NextClient ==
  \/ \E f \in {GoodForm(Meta_n), Form(<< >>, Meta_n)} :
        Cardinality(calls) < MaxCalls /\ Submit(f)
  \/ \E id \in rows : EnterEditMode(id)
  \/ CancelEdit
  \/ \E id \in rows :
        Cardinality(calls) < MaxCalls /\ HandleDelete(id)
  \/ Cardinality(calls) < MaxCalls /\ LogoutClick
  \/ \E c \in calls :
        Sent(c) /\ c.kind = "get" /\ GetArrive(c.n, ClientSession) /\ Fetch
  \/ \E r \in inflight : GetFind(r) /\ Fetch
  \/ \E c \in calls :
        /\ Sent(c) /\ c.kind = "post"
        /\ PostRejects(c.body) \/ nextId <= MaxClientTasks
        /\ PostArrive(c.n, ClientSession, c.body)
        /\ Fetch
  \/ \E r \in inflight : PostSave(r) /\ Fetch
  \/ \E r \in inflight : PostFind(r) /\ Fetch
  \/ \E c \in calls :
        Sent(c) /\ c.kind = "put" /\ PutArrive(c.n, ClientSession, c.id, c.body) /\ Fetch
  \/ \E r \in inflight : PutLoad(r) /\ Fetch
  \/ \E r \in inflight : PutSave(r) /\ Fetch
  \/ \E r \in inflight : PutFind(r) /\ Fetch
  \/ \E c \in calls :
        Sent(c) /\ c.kind = "delete" /\ DeleteArrive(c.n, ClientSession, c.id) /\ Fetch
  \/ \E r \in inflight : DeleteLoad(r) /\ Fetch
  \/ \E r \in inflight : DeleteOne(r) /\ Fetch
  \/ \E r \in inflight : DeleteFind(r) /\ Fetch
  \/ \E c \in calls :
        Sent(c) /\ c.kind = "me" /\ MeArrive(c.n, ClientSession) /\ Fetch
  \/ \E r \in inflight : MeFind(r) /\ Fetch
  \/ \E c \in calls :
        Sent(c) /\ c.kind = "logout" /\ LogoutArrive(c.n, ClientSession) /\ Fetch
  \/ \E r \in inflight : LogoutDestroy(r) /\ Fetch
  \/ \E c \in calls : DeliverPost(c)
  \/ \E c \in calls : DeliverPut(c)
  \/ \E c \in calls : DeliverDelete(c)
  \/ \E c \in calls : DeliverGet(c)
  \/ \E c \in calls : DeliverMe(c)
  \/ \E c \in calls : DeliverTimer(c)
  \/ \E c \in calls : DeliverLogout(c)

SpecClient == InitClient /\ [][NextClient]_vars

\* a client that starts a create or an edit only when no call is awaiting
\* and does not log out, while another session of the same user creates and
\* deletes tasks, one request at a time
NextStale ==
  \/ calls = {} /\ editId = BadId /\ Submit(GoodForm(Meta_n))
  \/ calls = {} /\ editId # BadId /\ Submit(GoodForm([Meta_n EXCEPT !.notes = <<"m">>]))
  \/ \E id \in rows : calls = {} /\ EnterEditMode(id)
  \/ \E c \in calls :
        Sent(c) /\ c.kind = "me" /\ MeArrive(c.n, ClientSession) /\ Fetch
  \/ \E r \in inflight : MeFind(r) /\ Fetch
  \/ \E c \in calls :
        Sent(c) /\ c.kind = "get" /\ GetArrive(c.n, ClientSession) /\ Fetch
  \/ \E r \in inflight : GetFind(r) /\ Fetch
  \/ \E c \in calls :
        /\ Sent(c) /\ c.kind = "post"
        /\ nextId <= MaxStaleTasks
        /\ PostArrive(c.n, ClientSession, c.body)
        /\ Fetch
  \/ \E c \in calls :
        Sent(c) /\ c.kind = "put" /\ PutArrive(c.n, ClientSession, c.id, c.body) /\ Fetch
  \/ /\ \A r \in inflight : r.sess = ClientSession
     /\ nextId <= MaxStaleTasks
     /\ PostArrive(Ticket("post", "s2", nextId), "s2", FormBody(GoodForm(DefaultMeta)))
     /\ Fetch
  \/ \E id \in TaskIds :
        /\ \A r \in inflight : r.sess = ClientSession
        /\ DeleteArrive(Ticket("delete", "s2", id), "s2", id)
        /\ Fetch
  \/ \E r \in inflight : PostSave(r) /\ Fetch
  \/ \E r \in inflight : PostFind(r) /\ Fetch
  \/ \E r \in inflight : PutLoad(r) /\ Fetch
  \/ \E r \in inflight : PutSave(r) /\ Fetch
  \/ \E r \in inflight : PutFind(r) /\ Fetch
  \/ \E r \in inflight : DeleteLoad(r) /\ Fetch
  \/ \E r \in inflight : DeleteOne(r) /\ Fetch
  \/ \E r \in inflight : DeleteFind(r) /\ Fetch
  \/ \E c \in calls : DeliverMe(c)
  \/ \E c \in calls : DeliverPost(c)
  \/ \E c \in calls : DeliverPut(c)
  \/ \E c \in calls : DeliverGet(c)
  \/ TickNext

SpecStale == InitClient /\ [][NextStale]_vars

\* one user whose requests overlap: creates, updates and deletes suspended
\* at their awaits while other requests on the same document are served
\* (one document stored at a time); the updates are of one field each, the
\* priority or the deadline cleared
NextRace ==
  \/ \E b \in PostBodies :
        /\ Idle
        /\ TaskIds = {}
        /\ nextId <= MaxRaceTasks
        /\ PostArrive(Ticket("post", "s1", nextId), "s1", b)
        /\ UNCHANGED clientVars
  \/ \E r \in inflight : PostSave(r) /\ UNCHANGED clientVars
  \/ \E r \in inflight : PostFind(r) /\ UNCHANGED clientVars
  \/ \E id \in TaskIds,
          b \in { With(EmptyBody, "priority", Str(P_high)),
                  With(EmptyBody, "deadline", Null) } :
        /\ Cardinality(inflight) < MaxInflight
        /\ PutArrive(Ticket("put", "s1", id), "s1", id, b)
        /\ UNCHANGED clientVars
  \/ \E r \in inflight : PutLoad(r) /\ UNCHANGED clientVars
  \/ \E r \in inflight : PutSave(r) /\ UNCHANGED clientVars
  \/ \E r \in inflight : PutFind(r) /\ UNCHANGED clientVars
  \/ \E id \in TaskIds :
        /\ Cardinality(inflight) < MaxInflight
        /\ DeleteArrive(Ticket("delete", "s1", id), "s1", id)
        /\ UNCHANGED clientVars
  \/ \E r \in inflight : DeleteLoad(r) /\ UNCHANGED clientVars
  \/ \E r \in inflight : DeleteOne(r) /\ UNCHANGED clientVars
  \/ \E r \in inflight : DeleteFind(r) /\ UNCHANGED clientVars

SpecRace == InitTasks /\ [][NextRace]_vars

-----------------------------------------------------------------------------
(* Properties *)

\* the requests that arrived in a step and were let into their handler:
\* those suspended after it, at the first await of their handler, that were
\* not suspended before
Arrived ==
  { r \in inflight' \ inflight :
      \/ r.op = "get" /\ r.phase = "find"
      \/ r.op = "post" /\ r.phase = "save"
      \/ r.op \in {"put", "delete", "me"} /\ r.phase = "findById"
      \/ r.op = "login" /\ r.phase = "findOne"
      \/ r.op = "logout" /\ r.phase = "destroy" }

\* the Updates and Deletes whose findById a step settled
Looked ==
  { r \in inflight \ inflight' :
      r.op \in {"put", "delete"} /\ r.phase = "findById" }

\* the requests a step let past the checks of their handler: a Create that
\* arrived, an Update or a Delete that found its task
Admitted ==
  { r \in inflight' \ inflight :
      \/ r.op = "post" /\ r.phase = "save"
      \/ r.op = "put" /\ r.phase = "save"
      \/ r.op = "delete" /\ r.phase = "deleteOne" }

\* the Creates whose save() a step carried out
Created == { r \in inflight \ inflight' : r.op = "post" /\ r.phase = "save" }

\* the Updates whose save() a step carried out
Saved ==
  { r \in inflight \ inflight' :
      r.op = "put" /\ r.phase = "save" /\ last' = NoAnswer }

\* the Deletes whose deleteOne() a step carried out
Deleted == { r \in inflight \ inflight' : r.op = "delete" /\ r.phase = "deleteOne" }

\* a step that answers a request when it arrives, before its handler
\* suspends
AnsweredAtOnce == last'.op # "none" /\ inflight' = inflight

\* C1: an Update or a Delete that finds its task stored and owned by another
\* user than the logged-in caller is answered 403 and leaves the Task
\* collection unchanged, whatever the body carries: the request is answered
\* before it reaches save() or deleteOne().
C1_ForbiddenForNonOwner ==
  [][ /\ \A r \in Looked :
           (r.id \in TaskIds /\ r.uid # NoUser /\ tasks[r.id].owner # r.uid)
             => /\ last'.op = r.op /\ last'.n = r.n /\ last'.sess = r.sess
                /\ last'.code = 403
                /\ tasks' = tasks
      /\ \A r \in Admitted :
           r.op \in {"put", "delete"}
             => (r.id \in TaskIds /\ tasks[r.id].owner = r.uid) ]_vars

\* an Update carrying fields was refused with 403 and the task is still stored
C1_Witness ==
  /\ last.op = "put" /\ last.code = 403 /\ last.fields # {}
  /\ last.id \in TaskIds
  /\ tasks[last.id].owner # session[last.sess]

\* C2: no step changes the owner of a stored task, and a task enters the
\* collection owned by the caller whose Create inserted it, the user logged
\* in on the session the Create arrived on.
C2_OwnerNeverChanges ==
  [][ /\ \A id \in TaskIds \cap TaskIds' : tasks'[id].owner = tasks[id].owner
      /\ \A id \in TaskIds' \ TaskIds :
            \E r \in Created : r.id = id /\ tasks'[id].owner = r.uid
      /\ \A r \in Admitted :
            r.op = "post" => (r.uid = session[r.sess] /\ r.uid # NoUser) ]_vars

\* tasks of two owners are stored and one of them was just updated
C2_Witness ==
  /\ last.op = "put" /\ last.code = 200
  /\ \E i, j \in TaskIds : tasks[i].owner # tasks[j].owner

\* C3: when a Create or an Update stores a task, the stored urgencyScore is
\* the one computeDerived gives for the stored priority and deadline at the
\* clock time the handler read, whichever fields the body supplied.
C3_ScoreRecomputed ==
  [][ \A r \in Created \cup Saved :
        tasks'[r.id] = computeDerived(tasks'[r.id], r.at) ]_vars

\* the days of the months of the calendar
IsLeap(y) == (y % 4 = 0 /\ y % 100 # 0) \/ y % 400 = 0

DaysInMonth(y, m) ==
  IF m = 2 THEN (IF IsLeap(y) THEN 29 ELSE 28)
  ELSE IF m \in {4, 6, 9, 11} THEN 30 ELSE 31

\* a date-only string "YYYY-MM-DD" that names a day of the calendar
IsCalendarDay(s) ==
  /\ Len(s) = 10
  /\ s[5] = "-" /\ s[8] = "-"
  /\ \A i \in {1, 2, 3, 4, 6, 7, 9, 10} : IsDigit(s[i])
  /\ LET y == 1000 * DigitVal(s[1]) + 100 * DigitVal(s[2])
               + 10 * DigitVal(s[3]) + DigitVal(s[4])
         m == 10 * DigitVal(s[6]) + DigitVal(s[7])
         d == 10 * DigitVal(s[9]) + DigitVal(s[10])
     IN  m \in 1..12 /\ d >= 1 /\ d <= DaysInMonth(y, m)

\* the declared domain of each field of a Task (spec, data model); null and
\* "" stand for "no deadline", a number is a time in milliseconds
InDomain(f, v) ==
  CASE f = "title"       -> /\ v.t = "string"
                            /\ Trim(v.s) # << >>
                            /\ Len(Trim(v.s)) <= 200
    [] f = "priority"    -> v.t = "string" /\ v.s \in Priorities
    [] f = "estimateHrs" -> v.t = "number" /\ v.k = 0 /\ v.n > 0 /\ v.n <= 100 * 100
    [] f = "deadline"    -> \/ v.t = "null"
                            \/ v = Str(<< >>)
                            \/ v.t = "number"
                            \/ (v.t = "string" /\ IsCalendarDay(v.s))
    [] f = "status"      -> v.t = "string" /\ v.s \in Statuses
    [] OTHER             -> TRUE

StoredInDomain(t) ==
  /\ t.title # << >> /\ Len(t.title) <= 200
  /\ t.priority \in Priorities
  /\ t.estimateHrs > 0 /\ t.estimateHrs <= 100 * 100
  /\ t.status \in Statuses

\* the document holds, for each of the four fields the body supplies, the
\* submitted value itself (a title with its outer white space trimmed; a
\* status of "" counts as not supplied)
KeptAsSubmitted(doc, b) ==
  /\ Supplied(b.title) => (b.title.t = "string" /\ doc.title = Trim(b.title.s))
  /\ Supplied(b.priority) => b.priority = Str(doc.priority)
  /\ Supplied(b.estimateHrs) => b.estimateHrs = Num(doc.estimateHrs)
  /\ (Supplied(b.status) /\ b.status # Str(<< >>)) => b.status = Str(doc.status)

\* C4 (first half): in every reachable state every stored task has a
\* non-empty title of at most 200 characters, a priority and a status of
\* their enumerations and an estimateHrs with 0 < x <= 100.
C4_StoredInDomain == \A id \in TaskIds : StoredInDomain(tasks[id])

\* C4: every stored task is within the declared domains, and a write either
\* is rejected or stores the submitted title, priority, estimateHrs and
\* status themselves, never another value in their place.
C4_InDomainNeverReplaced ==
  /\ C4_StoredInDomain
  /\ \A b \in PostBodiesWide :
        PostCode(session["s1"], b, now) = 200
          => KeptAsSubmitted(PostDoc(session["s1"], b, now), b)
  /\ \A id \in TaskIds : \A b \in PutBodiesWide :
        PutResult(tasks[id], b, now).code = 200
          => KeptAsSubmitted(PutResult(tasks[id], b, now).doc, b)

\* C5: an Update by the owner that supplies at least one field outside its
\* declared domain is not accepted (and so persists nothing).
C5_InvalidUpdateFails ==
  \A id \in TaskIds : \A b \in PutBodiesWide :
    (\E f \in SuppliedFields(b) : ~InDomain(f, b[f]))
      => PutResult(tasks[id], b, now).code # 200

\* C5 (as the code has it): an Update that is answered with an error leaves
\* the Task collection unchanged, also when valid fields precede the
\* invalid one in the handler's order.
C5_FailedUpdateChangesNothing ==
  [][ (last'.op = "put" /\ last'.code # 200) => tasks' = tasks ]_vars

\* C6: the save of an Update changes, in the identified task, only the
\* fields the body supplies and urgencyScore; the fields it does not supply,
\* the owner and createdAt keep their values, no document is added or
\* removed and every other document is unchanged; the steps of the Update
\* before and after its save change no document.
C6_UpdateFrame ==
  [][ /\ \A r \in Saved :
           /\ DOMAIN tasks' = DOMAIN tasks
           /\ r.id \in TaskIds
           /\ \A f \in Fields \ r.fields : tasks'[r.id][f] = tasks[r.id][f]
           /\ tasks'[r.id].owner = tasks[r.id].owner
           /\ tasks'[r.id].createdAt = tasks[r.id].createdAt
           /\ \A j \in TaskIds \ {r.id} : tasks'[j] = tasks[j]
      /\ (\E r \in Arrived \cup Looked : r.op = "put") => tasks' = tasks
      /\ last'.op = "put" => tasks' = tasks ]_vars

\* an Update of priority and status succeeded on a task that has notes, an
\* important flag and a deadline, while another task is stored
C6_Witness ==
  /\ last.op = "put" /\ last.code = 200
  /\ last.fields = {"priority", "status"}
  /\ tasks[last.id].notes # << >>
  /\ tasks[last.id].important
  /\ tasks[last.id].deadline # << >>
  /\ \E j \in TaskIds : j # last.id

\* C7: for every field and value, Update by the owner rejects the value
\* exactly when Create rejects it.
C7_UpdateValidatesAsCreate ==
  \A id \in TaskIds : \A f \in Validated : \A v \in FieldValues(f) :
    (PutResult(tasks[id], With(EmptyBody, f, v), now).code # 200)
      <=> (PostCode(session["s1"], With(BaseBody, f, v), now) # 200)

\* the fields of a Create are in their declared domains: title, priority
\* and estimateHrs, and deadline and status when the body carries them
CreateInDomain(b) ==
  /\ \A f \in {"title", "priority", "estimateHrs"} : InDomain(f, b[f])
  /\ \A f \in {"deadline", "status"} : Supplied(b[f]) => InDomain(f, b[f])

\* C8: Create succeeds exactly when its fields are in their declared
\* domains; it is answered with success or with InvalidInput (400), never
\* with a server error, and an unsuccessful Create inserts nothing.
C8_CreateSucceedsOrInvalidInput ==
  /\ [][ last'.op = "post"
           => /\ last'.code \in {200, 400}
              /\ (last'.code # 200 => tasks' = tasks) ]_vars
  /\ [](\A b \in PostBodiesWide :
           PostCode(session["s1"], b, now) = 200 <=> CreateInDomain(b))

\* C9: an Update or a Delete whose identifier matches no stored task is
\* answered NotFound (404) and leaves the Task collection unchanged.
C9_UnknownIdNotFound ==
  [][ \A r \in Looked :
        r.id \notin TaskIds
          => (last'.op = r.op /\ last'.n = r.n /\ last'.code = 404 /\ tasks' = tasks) ]_vars

\* C9 (as the code has it): the same for every identifier that is an ObjectId.
C9_UnknownObjectIdNotFound ==
  [][ \A r \in Looked :
        (r.id \notin TaskIds /\ r.id # BadId)
          => (last'.op = r.op /\ last'.n = r.n /\ last'.code = 404 /\ tasks' = tasks) ]_vars

\* C10: when the Task.find() of a GET, POST, PUT or DELETE settles, the
\* request is answered 200 with a list that holds exactly the tasks stored
\* at that moment whose owner is the caller (the user logged in on the
\* session the request arrived with), each once, in an order in which
\* createdAt never increases.
C10_ListIsOwnersNewestFirst ==
  [][ \A r \in inflight \ inflight' :
        r.phase = "find"
          => /\ last'.op = r.op /\ last'.n = r.n /\ last'.code = 200
             /\ {last'.list[i].id : i \in DOMAIN last'.list}
                  = {id \in DOMAIN tasks : tasks[id].owner = r.uid}
             /\ \A i, j \in DOMAIN last'.list :
                   i < j => /\ last'.list[i].id # last'.list[j].id
                            /\ last'.list[i].createdAt >= last'.list[j].createdAt
             /\ \A i \in DOMAIN last'.list :
                   /\ last'.list[i].createdAt = tasks[last'.list[i].id].createdAt
                   /\ last'.list[i].title = tasks[last'.list[i].id].title ]_vars

\* a GET answered two tasks of the caller created at different times
C10_Witness ==
  /\ last.op = "get" /\ last.code = 200
  /\ Len(last.list) = 2
  /\ last.list[1].createdAt > last.list[2].createdAt

\* C11: a Delete that passed the owner check names a stored task of the
\* caller; its deleteOne removes exactly the identified task and leaves every
\* other task, of any owner, unchanged; when it is answered no task has that
\* identifier.
C11_DeleteFrame ==
  [][ /\ \A r \in Admitted :
           r.op = "delete" => (r.id \in TaskIds /\ tasks[r.id].owner = r.uid)
      /\ \A r \in Deleted :
           /\ DOMAIN tasks' = TaskIds \ {r.id}
           /\ \A j \in TaskIds \ {r.id} : tasks'[j] = tasks[j]
      /\ (last'.op = "delete" /\ last'.code = 200)
           => (last'.id \notin TaskIds' /\ tasks' = tasks) ]_vars

\* a Delete succeeded and another task of the same caller is still stored
C11_Witness ==
  /\ last.op = "delete" /\ last.code = 200
  /\ last.id \notin TaskIds
  /\ \E j \in TaskIds : tasks[j].owner = session[last.sess]

\* C12: when Updates of one task overlap, the stored task after a save is
\* exactly the document that save's request held (last writer wins on the
\* whole document), and so its urgencyScore is the one computeDerived gives
\* for its stored priority and deadline at that request's clock time.
C12_LastWriterWins ==
  [][ \A r \in Saved :
        /\ tasks'[r.id] = r.doc
        /\ tasks'[r.id] = computeDerived(tasks'[r.id], r.at) ]_vars

\* C19: a deleted task never reappears: a task enters the collection only
\* by the save() of the Create that made its identifier, which has not been
\* stored before; in particular the save() of an Update that loaded a task
\* before it was deleted does not store it.
C19_DeletedNeverReappears ==
  /\ [][ /\ \A id \in TaskIds' \ TaskIds : \E r \in Created : r.id = id
         /\ \A r \in inflight \ inflight' :
              (r.op = "put" /\ r.phase = "save" /\ r.id \notin TaskIds)
                => r.id \notin TaskIds' ]_vars
  /\ [](\A r \in inflight :
          /\ r.op = "post" => r.id < nextId
          /\ (r.op = "post" /\ r.phase = "save") => r.id \notin TaskIds
          /\ (r.op = "post" /\ r.phase = "save")
               => \A q \in inflight : (q.op = "post" /\ q.id = r.id) => q = r)

\* the save of an Update found its task deleted since it was loaded
C19_Witness ==
  /\ last.op = "put" /\ last.code = 500
  /\ last.id # BadId /\ last.id < nextId
  /\ last.id \notin TaskIds

\* C13: a GET, POST, PUT or DELETE on /api/tasks that arrives on a session
\* that has no logged-in user is answered 401 with no task in the answer,
\* before its handler runs, and changes no task, in every reachable state
\* (before a login and after a logout); a request that is let into its
\* handler acts for the user logged in on its session when it arrived.
C13_UnauthenticatedRefused ==
  [][ /\ ( /\ AnsweredAtOnce
           /\ last'.op \in {"get", "post", "put", "delete"}
           /\ session[last'.sess] = NoUser )
         => /\ last'.code = 401
            /\ last'.list = << >>
            /\ tasks' = tasks
            /\ nextId' = nextId
      /\ \A r \in Arrived :
           r.op \in {"get", "post", "put", "delete"}
             => (session[r.sess] # NoUser /\ r.uid = session[r.sess]) ]_vars

\* a session that is not logged in named a stored task in an Update or a
\* Delete and was refused
C13_Witness ==
  /\ last.op \in {"put", "delete"} /\ last.code = 401
  /\ last.id \in TaskIds
  /\ session[last.sess] = NoUser

\* the normalized form of a username: trimmed and lower-cased
NormalName(u) == ToLowerCase(Trim(u))

\* the accounts whose username has the normalized form of u
AccountsOf(accounts, u) ==
  {i \in DOMAIN accounts : NormalName(accounts[i].username) = NormalName(u)}

\* at most one account per normalized username
OneAccountPerName ==
  \A i, j \in DOMAIN users :
    NormalName(users[i].username) = NormalName(users[j].username) => i = j

\* C14: a login (one that carries a username and a password) that finds no
\* account for its normalized username creates exactly one account for it
\* and logs the session in as that account; an account is created only by
\* such a login, none by a login whose normalized username has an account;
\* at most one account exists per normalized username.
C14_LoginCreatesOneAccount ==
  /\ [][ \A r \in inflight \ inflight' :
           (r.op = "login" /\ r.phase = "userSave")
             => /\ Len(users') = Len(users) + 1
                /\ SubSeq(users', 1, Len(users)) = users
                /\ users'[Len(users')].username = NormalName(JsString(r.cred.username))
                /\ [r EXCEPT !.phase = "sessionSave", !.uid = Len(users')] \in inflight' ]_vars
  /\ [][ \A r \in inflight \ inflight' :
           (r.op = "login" /\ r.phase = "sessionSave")
             => (session'[r.sess] = r.uid /\ last'.code \in {200, 201}) ]_vars
  /\ [][ users' # users
           => \E r \in inflight \ inflight' :
                /\ r.op = "login" /\ r.phase = "userSave"
                /\ AccountsOf(users, JsString(r.cred.username)) = {} ]_vars
  /\ []OneAccountPerName

\* the login's username names account uid and its password is uid's
PresentsPasswordOf(b, uid) ==
  /\ uid \in AccountsOf(users, JsString(b.username))
  /\ b.password.t = "string"
  /\ users[uid].passwordHash = Hash(b.password.s)

\* a login that lacks a credential or presents another password than the
\* one of the account its username names
BadLogin(b) ==
  \/ LoginRejects(b)
  \/ /\ AccountsOf(users, JsString(b.username)) # {}
     /\ \A uid \in AccountsOf(users, JsString(b.username)) : ~PresentsPasswordOf(b, uid)

\* the logins a step let past User.findOne() (no account found) or past
\* verifyPassword()
LoginsAdmitted ==
  { r \in inflight' \ inflight :
      /\ r.op = "login"
      /\ r.phase = "hash" \/ (r.phase = "sessionSave" /\ r.code = 200) }

\* C20: a step binds a session to a user only when it completes a login on
\* that session, answered with success, whose username names the user's
\* account and whose password is that account's (the one the login created
\* it with, or the one it presented); a login with a wrong password or a
\* missing credential is answered with an error and no step of it changes
\* the sessions' users or the accounts.
C20_SessionBoundOnlyByLogin ==
  [][ /\ \A s \in Sessions :
           (session'[s] # session[s] /\ session'[s] # NoUser)
             => \E r \in inflight \ inflight' :
                  /\ r.op = "login" /\ r.sess = s /\ r.phase = "sessionSave"
                  /\ last'.op = "login" /\ last'.sess = s
                  /\ last'.code \in {200, 201}
                  /\ PresentsPasswordOf(r.cred, session'[s])
      /\ \A r \in LoginsAdmitted : ~BadLogin(r.cred)
      /\ (last'.op = "login" /\ BadLogin(last'.cred))
           => /\ last'.code \in {400, 401, 500}
              /\ session' = session
              /\ users' = users
      /\ \A r \in (inflight \ inflight') \cup (inflight' \ inflight) :
           (r.op = "login" /\ BadLogin(r.cred))
             => (session' = session /\ users' = users) ]_vars

\* a session logged in as one user presented a wrong password for another
\* user's account, was refused and is still logged in as the first
C20_Witness ==
  /\ last.op = "login" /\ last.code = 401
  /\ session[last.sess] # NoUser
  /\ session[last.sess] \notin AccountsOf(users, JsString(last.cred.username))

\* the weight table of the urgency calculator (spec, 4.1)
ClaimWeight(p) ==
  CASE p = P_low      -> 1
    [] p = P_medium   -> 2
    [] p = P_high     -> 3
    [] p = P_critical -> 5

\* the documents a step stored, each with the clock time at which its
\* handler scored it: the document a Create inserted, and the in-memory
\* document an Update saved
Scored == { <<r.doc, r.at>> : r \in Created \cup Saved }

\* the Date d lies more than secs seconds after the clock time t
Ahead(d, t, secs) == d[1] - t > secs \/ (d[1] - t = secs /\ d[2] > 0)

\* the Date d lies after the Date e
Later(d, e) == d[1] > e[1] \/ (d[1] = e[1] /\ d[2] > e[2])

\* the score (in hundredths) the document scored as x would get at the same
\* clock time with the deadline d in place of its own
ScoreWith(x, d) ==
  computeDerived([x[1] EXCEPT !.deadline = d], x[2]).urgencyScore

\* C15: whenever a task with no deadline is scored, at any clock time, its
\* urgencyScore is weight(priority): low 1, medium 2, high 3, critical 5.
C15_NoDeadlineScoreIsWeight ==
  [][ \A x \in Scored :
        x[1].deadline = << >>
          => x[1].urgencyScore = 100 * ClaimWeight(x[1].priority) ]_vars

\* after the clock advanced, an Update cleared the deadline of a critical
\* task, whose score is now 5
C15_Witness ==
  /\ last.op = "put" /\ last.code = 200 /\ "deadline" \in last.fields
  /\ now > ClockStart
  /\ tasks[last.id].deadline = << >>
  /\ tasks[last.id].priority = P_critical
  /\ tasks[last.id].urgencyScore = 500

\* C16: a task scored with a deadline at the clock time, in the past or less
\* than one hour ahead gets weight(priority) * 24; Create and Update accept
\* every such deadline.
C16_ClampedScore ==
  /\ [][ \A x \in Scored :
           ( /\ x[1].deadline # << >>
             /\ x[1].deadline[1] - x[2] < SecPerHour )
           => x[1].urgencyScore
                = 100 * 24 * ClaimWeight(x[1].priority) ]_vars
  /\ [](\A b \in UrgencyPostBodies :
           (b.deadline # Undef /\ NewDate(b.deadline)[1] - now < SecPerHour)
             => PostCode(session["s1"], b, now) = 200)
  /\ [](\A id \in TaskIds : \A b \in UrgencyPutBodies :
           ( /\ b.deadline.t \in {"string", "number"}
             /\ NewDate(b.deadline)[1] - now < SecPerHour )
             => PutResult(tasks[id], b, now).code = 200)

\* an Update gave a critical task a deadline less than one hour ahead of the
\* clock and its score is 120
C16_Witness ==
  /\ last.op = "put" /\ last.code = 200 /\ "deadline" \in last.fields
  /\ tasks[last.id].deadline # << >>
  /\ tasks[last.id].deadline[1] > now
  /\ tasks[last.id].deadline[1] - now < SecPerHour
  /\ tasks[last.id].priority = P_critical
  /\ tasks[last.id].urgencyScore = 12000

\* C17: when a task is scored with a deadline more than one hour ahead,
\* every later deadline would give it, at the same clock time and priority,
\* a strictly smaller score.
C17_StrictlyDecreasing ==
  [][ \A x \in Scored :
        ( /\ x[1].deadline # << >>
          /\ Ahead(x[1].deadline, x[2], SecPerHour) )
        => \A d \in UrgencyDeadlines :
              Later(d, x[1].deadline)
                => ScoreWith(x, d) < x[1].urgencyScore ]_vars

\* C17 (amended): every later deadline would give a score that is not
\* greater.
C17_NeverIncreasing ==
  [][ \A x \in Scored :
        ( /\ x[1].deadline # << >>
          /\ Ahead(x[1].deadline, x[2], SecPerHour) )
        => \A d \in UrgencyDeadlines :
              Later(d, x[1].deadline)
                => ScoreWith(x, d) <= x[1].urgencyScore ]_vars

\* a task was scored with a deadline more than one hour ahead; of the later
\* deadlines one scores less and one scores the same
C17_Witness ==
  /\ last.op \in {"post", "put"} /\ last.code = 200
  /\ last.id \in TaskIds
  /\ tasks[last.id].deadline # << >>
  /\ Ahead(tasks[last.id].deadline, now, SecPerHour)
  /\ tasks[last.id] = computeDerived(tasks[last.id], now)
  /\ \E d \in UrgencyDeadlines :
        /\ Later(d, tasks[last.id].deadline)
        /\ computeDerived([tasks[last.id] EXCEPT !.deadline = d], now).urgencyScore
             < tasks[last.id].urgencyScore
  /\ \E d \in UrgencyDeadlines :
        /\ Later(d, tasks[last.id].deadline)
        /\ computeDerived([tasks[last.id] EXCEPT !.deadline = d], now).urgencyScore
             = tasks[last.id].urgencyScore

\* C18: a task scored with a deadline in the future, however far, gets a
\* score strictly greater than 0.
C18_ScoreAboveZero ==
  [][ \A x \in Scored :
        ( /\ x[1].deadline # << >>
          /\ Ahead(x[1].deadline, x[2], 0) )
        => x[1].urgencyScore > 0 ]_vars

\* C18 (amended): the score is never negative; it is greater than 0 when the
\* deadline is at most 200 * weight(priority) days ahead, and 0 beyond.
C18_ScoreZeroBeyond200DaysPerWeight ==
  [][ \A x \in Scored :
        ( /\ x[1].deadline # << >>
          /\ Ahead(x[1].deadline, x[2], 0) )
        => /\ x[1].urgencyScore >= 0
           /\ x[1].urgencyScore > 0
                <=> ~Ahead(x[1].deadline, x[2],
                           200 * ClaimWeight(x[1].priority) * SecPerDay) ]_vars

\* a low task was scored with a deadline between 100 and 200 days ahead, where
\* its score rounds to 0.01
C18_Witness ==
  /\ last.op \in {"post", "put"} /\ last.code = 200
  /\ last.id \in TaskIds
  /\ tasks[last.id].priority = P_low
  /\ tasks[last.id].deadline # << >>
  /\ tasks[last.id].deadline[1] - now > 100 * SecPerDay
  /\ tasks[last.id].deadline[1] - now < 200 * SecPerDay
  /\ tasks[last.id].urgencyScore = 1

\* C21: a logout is answered 200, leaves its session with no bound user and
\* changes no task, no account and no other session; a session with no
\* bound user stays so until a successful login on it, and until then every
\* /api/tasks request that arrives on it is answered 401 before its handler
\* runs and every /auth/me that arrives on it reports authenticated false.
C21_LoggedOutUntilLogin ==
  [][ /\ last'.op = "logout"
           => /\ last'.code = 200
              /\ session'[last'.sess] = NoUser
              /\ \A s \in Sessions \ {last'.sess} : session'[s] = session[s]
              /\ tasks' = tasks
              /\ users' = users
      /\ \A s \in Sessions :
           session[s] = NoUser
             => /\ session'[s] # NoUser
                     => (last'.op = "login" /\ last'.sess = s /\ last'.code \in {200, 201})
                /\ ( /\ AnsweredAtOnce /\ last'.sess = s
                     /\ last'.op \in {"get", "post", "put", "delete"} )
                     => (last'.code = 401 /\ tasks' = tasks)
                /\ (AnsweredAtOnce /\ last'.sess = s /\ last'.op = "me")
                     => last'.list = << >>
                /\ \A r \in Arrived :
                     r.op \in {"get", "post", "put", "delete", "me"} => r.sess # s ]_vars

\* a task is stored, so its owner's session was logged in; now no session
\* has a bound user and /auth/me just reported authenticated false
C21_Witness ==
  /\ TaskIds # {}
  /\ \A s \in Sessions : session[s] = NoUser
  /\ last.op = "me" /\ last.list = << >>

\* the calls whose response a step of the page took up (none when the step
\* reloads the page)
Delivered ==
  IF \E c \in calls \ calls' : c.kind = "logout" /\ c.answered THEN {}
  ELSE {c \in calls \ calls' : c.answered}

\* C22: when the response of a failed create, edit or delete reaches the
\* page, state.tasks afterwards is the list the client held when that
\* request was sent and state.meta is unchanged, also when other operations
\* of the client were started while the request awaited its response.
C22_FailedRequestRestoresList ==
  [][ \A c \in Delivered :
        (c.kind \in {"post", "put", "delete"} /\ c.code # 200)
          => (stateTasks' = c.held /\ meta' = meta) ]_vars

\* C23: when the response of a successful create or edit reaches the page,
\* the metadata stored for the created or edited task is the submitted
\* notes, important and status and the metadata stored for every other task
\* is unchanged; and when the handler's closing fetchTasks succeeds, the
\* list shows that task, if the server still has it, with the submitted
\* notes, important and status. This holds also when another session of the
\* same user added or removed tasks since the client last fetched its list.
C23_ListShowsSubmittedMeta ==
  [][ \A c \in Delivered :
        /\ (c.kind \in {"post", "put"} /\ c.code = 200)
             => /\ c.id \in DOMAIN meta'
                /\ meta'[c.id] = c.sub
                /\ DOMAIN meta' \ {c.id} = DOMAIN meta \ {c.id}
                /\ \A i \in DOMAIN meta \ {c.id} : meta'[i] = meta[i]
        /\ (c.kind = "get" /\ c.id # BadId /\ c.code = 200)
             => \A k \in DOMAIN stateTasks' :
                  stateTasks'[k].id = c.id
                    => /\ stateTasks'[k].notes = c.sub.notes
                       /\ stateTasks'[k].important = c.sub.important
                       /\ stateTasks'[k].status = c.sub.status ]_vars

=============================================================================
